---- MODULE Spec2Model ----
(***************************************************************************)
(* Model of the Telegram/Codex bridge in bot.js: the message handler, the  *)
(* single-flight flag `busy`, the per-chat session store and its file, the *)
(* staged push flow and the repository alias registry.                     *)
(*                                                                         *)
(* Every incoming message runs one invocation of the async handler of      *)
(* bot.on("message").  JavaScript runs the code between two `await`s       *)
(* atomically, so one action of the model is one such stretch of code, and *)
(* `pc[p]` names the await the invocation p is suspended at.  Invocations  *)
(* are numbered in arrival order: p arrives before p+1.  When a handler    *)
(* returns, its message and its locals are gone.                           *)
(*                                                                         *)
(* Outside the model: git, the task executor, the file system's access     *)
(* check and GitHub are the environment, and every result they can return  *)
(* is a nondeterministic choice.  bot.sendMessage, mkdir and writeFile are *)
(* taken to succeed; a writeFile lands at some point between its call and  *)
(* the resolution of its promise, with the content stringified at the      *)
(* call.  Timestamps: createdAt is the arrival index of the message that   *)
(* staged the push (0 for one loaded from the file); the ts of a history   *)
(* turn is left out.                                                       *)
(***************************************************************************)
EXTENDS Integers, Sequences, FiniteSets, TLC

\* ---------------------------------------------------------------- bounds
\* Messages that arrive in one run.
MaxMsgs == 3
\* Handler invocations suspended at the same time.
MaxInFlight == 2
\* Chats with a session.
NumChats == 1
\* config.historyStoreLimit of the run.
historyStoreLimit == 1
\* Largest commit count git reports.
MaxAhead == 1
\* config.resultStoreLimit of the run.
resultStoreLimit == 1
\* Study of addHistory: the largest config.historyStoreLimit, the number of
\* calls and the longest content.
MaxHistoryLimit == 2
MaxAdds == 3
MaxContentLen == 2
\* Study of chunkTextByParagraph: the longest text and the largest maxLen.
MaxTextLen == 6
MaxChunkLen == 4
\* Study of sanitizePushNarration: the longest text.
MaxNarrLen == 6
\* Study of runCodex: the chunks of data the task writes to each stream.
MaxData == 2
\* Study of the loaders: the values Date.now() may return.
MaxClock == 3
\* Study of the error messages: the largest config.telegramMax and the
\* longest message of an error.
MaxTelegramMax == 25
MaxErrLen == 26
\* Study of the startup: the longest value of an environment variable.
MaxRawLen == 2
\* Study of sendLongMessage: the largest config.telegramMax, the longest
\* text and the largest number of chunks that is counted.
MaxSendMax == 22
MaxSendLen == 3
MaxCounted == 3

Procs == 1..MaxMsgs
Chats == 1..NumChats
\* /push descriptions: the one-tap text and an ordinary one ("" is none).
Descs == {"commit and push", "d1"}
Texts == {"t1"}
Heads == {"h0", "h1"}
\* Branches the work tree may be on.
Branches == {"main", "work"}
\* Task outputs: one with a line of stale push narration.
Outputs == {<<"P", "\n", "a">>}
\* Alias arguments as typed, and paths ("" is a missing argument).
RawAliases == {"", "A", "Default"}
Paths == {"", "/p"}
\* /repo commands as <<action, alias, path>>.
RepoCommands ==
  {<<a, "", "">> : a \in {"help", "list", "other"}}
    \cup {<<"add", raw, path>> : raw \in RawAliases, path \in Paths}
    \cup {<<a, raw, "">> : a \in {"use", "remove"}, raw \in RawAliases}

\* ------------------------------------------------------------ data model
Null == <<>>
\* A staged push that carries no time of its own.
PendingUndated(d, t) == <<[description |-> d, createdAt |-> 0]>>
Pending(d, t) == <<[description |-> d, createdAt |-> t]>>
EmptySession == [history |-> <<>>, pendingPush |-> Null]
Turn(role, content) == [role |-> role, content |-> content]
\* Sessions a session file may hold at startup.
SessionValues ==
  {EmptySession,
   [history |-> <<Turn("user", <<"t1">>)>>, pendingPush |-> Pending("d1", 0)]}
Stores == UNION {[D -> SessionValues] : D \in SUBSET Chats}
EmptyStore == [c \in {} |-> EmptySession]

defaultRepoDef == [dir |-> "/default", branch |-> "main", remote |-> "origin"]
\* No alias name is reserved.
NoneReserved == {}
RESERVED_ALIASES == {"default"}
NoAliases == [a \in {} |-> defaultRepoDef]
NoActive == "null"
EmptyRegistry == [aliases |-> NoAliases, active |-> NoActive]
ConfigFor(def) ==
  [targetRepoDir |-> def.dir,
   targetBranch |-> def.branch,
   targetRemote |-> def.remote,
   inputsDir |-> <<def.dir, ".codex-inputs">>,
   primaryGitDir |-> <<def.dir, ".git">>]

\* config.allowedUserId, the senders and the chat types of a message.
allowedUserId == "owner"
Senders == {allowedUserId, "stranger"}
ChatTypes == {"private", "group"}
\* Who sent a message and where; empty: it has no text and no media.
Envelopes ==
  [fn : {"message"}, type : ChatTypes, from : Senders, empty : BOOLEAN]
\* No message was delivered yet.
NoEnvelope == [fn |-> "message", type |-> "", from |-> "", empty |-> TRUE]

\* No function is studied.
NoArg == [fn |-> "none"]
NoRes == <<>>

NoMsg == [cmd |-> "none"]
NoCall == [tool |-> "none"]
NoBuf == [file |-> "none"]
NoLoc ==
  [isPush |-> FALSE, userText |-> "", stale |-> FALSE, headBefore |-> "",
   probe |-> "", headAfter |-> "", ahead |-> 0, dirty |-> FALSE,
   pushResult |-> "",
   result |-> "",
   status |-> "", error |-> "",
   branch |-> "", def |-> defaultRepoDef, alias |-> NoActive,
   apply |-> FALSE]

VARIABLES
  busy,            \* bot.js:25
  sessions,        \* bot.js:26
  sessionFile,     \* the file at config.sessionPath
  repoAliasStore,  \* bot.js:22
  aliasFile,       \* the file at config.repoAliasStorePath
  config,          \* bot.js:15, the fields applyRepoSelection rewrites
  githubToken,     \* config.githubToken is set
  pc,              \* per invocation: the await it is suspended at
  msg,             \* per invocation: the message it handles
  loc,             \* per invocation: its local variables
  call,            \* per invocation: the child process or request it awaits
  buf,             \* per invocation: the writeFile it awaits
  reply,           \* the message the last step sent to the chat, if any
  arg,             \* function studies: the inputs of the function
  res              \* function studies: its result

vars ==
  <<busy, sessions, sessionFile, repoAliasStore, aliasFile, config,
    githubToken, pc, msg, loc, call, buf, reply, arg, res>>

\* ------------------------------------------------------------- helpers
\* getSession that hands out a new session every time.
getSessionFresh(store, c) == (c :> EmptySession) @@ store

\* getSession: the session of the chat, created empty when missing.
getSession(store, c) ==
  IF c \in DOMAIN store THEN store ELSE (c :> EmptySession) @@ store

\* String(content || "").slice(0, n) on a text given as a sequence.
sliceFirst(content, n) ==
  SubSeq(content, 1, IF Len(content) < n THEN Len(content) ELSE n)

\* history.slice(-n), for 0 < n.
sliceLast(history, n) ==
  IF Len(history) <= n THEN history
  ELSE SubSeq(history, Len(history) - n + 1, Len(history))

\* Eviction that keeps the oldest turns.
pushHistoryKeepsOldest(history, role, content, limit) ==
  LET h == Append(history, Turn(role, sliceFirst(content, resultStoreLimit)))
  IN IF Len(h) > limit THEN SubSeq(h, 1, limit) ELSE h

\* bot.js:83-90: push the turn with its content cut to resultStoreLimit,
\* then keep the last `limit` (config.historyStoreLimit) turns.
pushHistory(history, role, content, limit) ==
  LET h == Append(history, Turn(role, sliceFirst(content, resultStoreLimit)))
  IN IF Len(h) > limit THEN sliceLast(h, limit) ELSE h

\* addHistory; a text of the bot's runs counts as one unit of content.
addHistory(store, c, role, content) ==
  LET s == getSession(store, c)
  IN [s EXCEPT ![c].history =
        pushHistory(@, role, <<content>>, historyStoreLimit)]

\* ------------------------------------------------------- texts
\* A text is a sequence of characters; these stand for letters, the space
\* and the newline.
Letters == {"a", "b"}
\* The characters String.prototype.trim removes.
Whitespace == {" ", "\n", "\r"}
Chars == Letters \cup {" ", "\n"}

\* text.slice(from) and text.slice(0, to), with 0-based offsets.
\* A negative offset counts from the end; offsets are held within the text.
offsetIn(text, i) ==
  IF i < 0 THEN (IF Len(text) + i < 0 THEN 0 ELSE Len(text) + i)
  ELSE IF i > Len(text) THEN Len(text) ELSE i
sliceFrom(text, from) == SubSeq(text, offsetIn(text, from) + 1, Len(text))
sliceTo(text, to) == SubSeq(text, 1, offsetIn(text, to))

\* String.prototype.trim
RECURSIVE trimStart(_)
trimStart(text) ==
  IF text # <<>> /\ Head(text) \in Whitespace THEN trimStart(Tail(text))
  ELSE text

RECURSIVE trimEnd(_)
trimEnd(text) ==
  IF text # <<>> /\ text[Len(text)] \in Whitespace
    THEN trimEnd(SubSeq(text, 1, Len(text) - 1))
  ELSE text

trim(text) == trimEnd(trimStart(text))

\* The characters that end a line for ^ and $ of a multiline pattern.
Terminators == {"\n", "\r"}

\* "P" and "Q" each stand for a phrase one of the patterns looks for.
patterns == <<"P", "Q">>

\* A pattern that lacks its two .* and so wants the phrase alone on the line.
matchesWholeLine(line, phrase) == line = <<phrase>>

\* message-utils.js:25-28: /^.*phrase.*$/ matches a line that has the phrase.
matches(line, phrase) == \E i \in 1..Len(line) : line[i] = phrase

\* message-utils.js:33: out.replace(pattern, ""), pattern with flags g and m.
RECURSIVE replacePattern(_, _)
replacePattern(text, phrase) ==
  LET ends == {i \in 1..Len(text) : text[i] \in Terminators}
      k == IF ends = {} THEN Len(text) + 1
           ELSE CHOOSE i \in ends : \A j \in ends : i <= j
      line == SubSeq(text, 1, k - 1)
      kept == IF matches(line, phrase) THEN <<>> ELSE line
  IN IF k > Len(text) THEN kept
     ELSE kept \o <<text[k]>>
               \o replacePattern(SubSeq(text, k + 1, Len(text)), phrase)

\* message-utils.js:35: out.replace(/\n{3,}/g, "\n\n")
RECURSIVE collapseNewlines(_)
collapseNewlines(text) ==
  IF text = <<>> THEN <<>>
  ELSE IF Len(text) >= 3 /\ \A i \in 1..3 : text[i] = "\n"
    THEN collapseNewlines(Tail(text))
  ELSE <<Head(text)>> \o collapseNewlines(Tail(text))

\* message-utils.js:31-35: every pattern in turn.
RECURSIVE replaceAll(_, _)
replaceAll(text, pats) ==
  IF pats = <<>> THEN text
  ELSE replaceAll(replacePattern(text, Head(pats)), Tail(pats))

sanitizePushNarration(text) ==
  trim(collapseNewlines(replaceAll(text, patterns)))

\* The characters of a text as one string, as the bot's runs carry a text.
RECURSIVE asString(_)
asString(text) == IF text = <<>> THEN "" ELSE Head(text) \o asString(Tail(text))


\* isOneTapPushCommand on the text "/push <d>".
isOneTapPushCommand(d) == d = "commit and push"

\* normalizeAliasName: trim and lower-case.
normalizeAliasName(raw) ==
  CASE raw = "A" -> "a"
    [] raw = "Default" -> "default"
    [] OTHER -> raw

InFlight == {q \in Procs : pc[q] \notin {"wait", "done"}}

\* The invocations that hold a session object in `session` (bot.js:801)
\* across an await.
Holders ==
  {q \in InFlight : msg[q].cmd \in {"plain", "confirmpush"}}

\* A replacement of the session objects that also drops the staged flow of
\* the runs that hold them.
DetachStops(C) ==
  [q \in Procs |->
     IF q \in Holders /\ msg[q].chat \in C
       THEN [loc[q] EXCEPT !.stale = TRUE, !.isPush = FALSE]
       ELSE loc[q]]

\* loc after the session objects of the chats in C were replaced.
Detach(C) ==
  [q \in Procs |->
     IF q \in Holders /\ msg[q].chat \in C
       THEN [loc[q] EXCEPT !.stale = TRUE]
       ELSE loc[q]]

\* The next message is delivered and its handler starts.
Delivered(p) ==
  /\ pc[p] = "wait"
  /\ IF p = 1 THEN TRUE ELSE pc[p - 1] # "wait"
  /\ Cardinality(InFlight) < MaxInFlight

\* The envelope e of the delivered message is noted when the inbox is
\* studied (arg then holds the envelope of the last message).
Noted(e) ==
  /\ arg' = IF arg.fn = "message" THEN e ELSE arg
  /\ res' = res

\* A check of the chat type alone.
AcceptsAnyone(type, from) == type = "private"

\* bot.js:660-663: only direct messages, only from the configured user.
Accepts(type, from) == type = "private" /\ from = allowedUserId

\* The message passed bot.js:660-677 and has a text or media.
Arrives(p) ==
  /\ Delivered(p)
  /\ \E e \in Envelopes :
       Accepts(e.type, e.from) /\ ~e.empty /\ Noted(e)

\* The handler returns.
Return(p) ==
  /\ pc' = [pc EXCEPT ![p] = "done"]
  /\ msg' = [msg EXCEPT ![p] = NoMsg]
  /\ loc' = [loc EXCEPT ![p] = NoLoc]
  /\ call' = [call EXCEPT ![p] = NoCall]
  /\ buf' = [buf EXCEPT ![p] = NoBuf]

\* A handler that replies and returns at once.
Finish(p, text) ==
  /\ pc' = [pc EXCEPT ![p] = "done"]
  /\ reply' = text
  /\ UNCHANGED <<msg, loc, call, buf>>

\* A handler that suspends at `label`.
Suspend(p, m, l, label) ==
  /\ pc' = [pc EXCEPT ![p] = label]
  /\ msg' = [msg EXCEPT ![p] = m]
  /\ loc' = [loc EXCEPT ![p] = l]

\* The step sends no message.
Quiet == reply' = "none"

SameSessions == UNCHANGED <<sessions, sessionFile>>
\* The registry and the configuration stay.
SameConfig == UNCHANGED <<repoAliasStore, aliasFile, config, githubToken>>
\* The same in a step that takes no message in.
SameRepo == SameConfig /\ UNCHANGED <<arg, res>>

\* ------------------------------------------------------------------ Init
\* The bot after startup with the session store loaded from `store`.
Started(store) ==
  /\ busy = FALSE
  /\ sessions = store
  /\ sessionFile = sessions
  /\ repoAliasStore = EmptyRegistry
  /\ aliasFile = repoAliasStore
  /\ config = ConfigFor(defaultRepoDef)
  /\ githubToken = TRUE
  /\ pc = [p \in Procs |-> "wait"]
  /\ msg = [p \in Procs |-> NoMsg]
  /\ loc = [p \in Procs |-> NoLoc]
  /\ call = [p \in Procs |-> NoCall]
  /\ buf = [p \in Procs |-> NoBuf]
  /\ reply = "none"

Init ==
  /\ \E store \in Stores : Started(store)
  /\ arg = NoArg
  /\ res = NoRes

\* ----------------------------------------------- /start, /state (679-704)
RecvStart(p, c) ==
  /\ Arrives(p)
  /\ Finish(p, "online")
  /\ UNCHANGED busy /\ SameSessions /\ SameConfig

RecvState(p, c) ==
  /\ Arrives(p)
  /\ sessions' = getSession(sessions, c)
  /\ Finish(p, "state")
  /\ UNCHANGED <<busy, sessionFile>> /\ SameConfig

\* ------------------------------------------------- saveSessions (63-67)
\* After `await mkdir`: the store is stringified and writeFile called.
SaveMkdirDone(p) ==
  /\ pc[p] \in {"save_mkdir", "catch_mkdir", "reset_mkdir"}
  /\ buf' = [buf EXCEPT ![p] = [file |-> "sessions", content |-> sessions]]
  /\ pc' = [pc EXCEPT ![p] =
              CASE pc[p] = "save_mkdir" -> "save_write"
                [] pc[p] = "catch_mkdir" -> "catch_write"
                [] OTHER -> "reset_write"]
  /\ UNCHANGED <<busy, msg, loc, call>> /\ Quiet /\ SameSessions /\ SameRepo

\* ------------------------- /new, /clear, /push, /cancelpush (687-749)
RecvNew(p, c) ==
  /\ Arrives(p)
  /\ sessions' = (c :> EmptySession) @@ sessions
  /\ pc' = [pc EXCEPT ![p] = "save_mkdir"]
  /\ msg' = [msg EXCEPT ![p] = [cmd |-> "new", chat |-> c, arg |-> ""]]
  /\ loc' = Detach({c})
  /\ UNCHANGED <<busy, sessionFile, call, buf>> /\ Quiet /\ SameConfig

RecvPush(p, c, d) ==
  /\ Arrives(p)
  /\ IF d = ""
       THEN Finish(p, "usage_push") /\ UNCHANGED sessions
       ELSE /\ sessions' =
                 [getSession(sessions, c) EXCEPT
                    ![c].pendingPush = Pending(d, p)]
            /\ Suspend(p, [cmd |-> "push", chat |-> c, arg |-> d], NoLoc,
                       "save_mkdir")
            /\ UNCHANGED <<call, buf>> /\ Quiet
  /\ UNCHANGED <<busy, sessionFile>> /\ SameConfig

\* A cancel that resets the whole session, as /new does.
cancelResets(store, c) == [getSession(store, c) EXCEPT ![c] = EmptySession]

\* bot.js:744-745: session.pendingPush = null on the chat's session.
cancelPending(store, c) ==
  [getSession(store, c) EXCEPT ![c].pendingPush = Null]

RecvCancelPush(p, c) ==
  /\ Arrives(p)
  /\ sessions' = cancelPending(sessions, c)
  /\ Suspend(p, [cmd |-> "cancelpush", chat |-> c, arg |-> ""], NoLoc,
             "save_mkdir")
  /\ UNCHANGED <<busy, sessionFile, call, buf>> /\ Quiet /\ SameConfig

\* writeFile resolved, the reply is sent and the handler returns.
SimpleSaved(p) ==
  /\ pc[p] = "save_write"
  /\ msg[p].cmd \in {"new", "push", "cancelpush"}
  /\ sessionFile' = buf[p].content
  /\ reply' =
       CASE msg[p].cmd = "new" -> "cleared"
         [] msg[p].cmd = "cancelpush" -> "canceled"
         [] OTHER ->
              IF isOneTapPushCommand(msg[p].arg) THEN "staged_keyboard"
              ELSE "staged"
  /\ Return(p)
  /\ UNCHANGED <<busy, sessions>> /\ SameRepo

\* ------------------------------- plain request, /confirmpush (800-1019)
\* The child processes the handler starts, with the arguments it passes.
gitArgs == <<"-C", config.targetRepoDir>>
runGit(args) == [tool |-> "git", args |-> gitArgs \o args]
getHeadCommit == runGit(<<"rev-parse", "HEAD">>)
revSpec == <<config.targetRemote, config.targetBranch>>
getAheadCount == runGit(<<"rev-list", "--count", revSpec>>)
codexAheadProbe ==
  [tool |-> "git",
   args |-> <<"--git-dir", <<config.targetRepoDir, ".git-codex">>,
              "--work-tree", config.targetRepoDir,
              "rev-list", "--count", revSpec>>]
gitStatus == runGit(<<"status", "--porcelain">>)
gitPush == runGit(<<"push", config.targetRemote, config.targetBranch>>)
buildDiffPreview(ref) ==
  IF ref = "" THEN runGit(<<"diff">>) ELSE runGit(<<"show", ref>>)
\* The commit policy whatever the request.
policyAlwaysCommit(isPush) == "commit"
policyOf(isPush) == IF isPush THEN "commit" ELSE "no-commit"
runCodex(isPush) ==
  [tool |-> "codex",
   cd |-> config.targetRepoDir,
   gitDir |-> config.primaryGitDir,
   sandbox |-> IF isPush THEN "pushSandbox" ELSE "defaultSandbox",
   policy |-> policyOf(isPush)]

\* session.pendingPush = null on the object bound at bot.js:801: it is the
\* chat's session unless that object was replaced since.
ClearPending(p) ==
  LET c == msg[p].chat IN
  IF loc[p].stale \/ c \notin DOMAIN sessions THEN sessions
  ELSE [sessions EXCEPT ![c].pendingPush = Null]

historyUserText(p) ==
  IF loc[p].isPush THEN "/confirmpush " \o loc[p].userText
  ELSE loc[p].userText

\* No check for a staged push.
NeedsNothing(isConfirmPush, pending) == FALSE

\* bot.js:809: /confirmpush needs a staged push.
NeedsPending(isConfirmPush, pending) == isConfirmPush /\ pending = Null

\* bot.js:814: the flag is read.
GateBusy == busy

\* bot.js:800-822: the request is a plain text or /confirmpush.
RecvRequest(p, c, cmd, text) ==
  LET store == getSession(sessions, c)
      pending == store[c].pendingPush
      isConfirmPush == cmd = "confirmpush"
      isPush == isConfirmPush /\ pending # Null
  IN
  /\ Arrives(p)
  /\ sessions' = store
  /\ IF NeedsPending(isConfirmPush, pending)
       THEN Finish(p, "no_pending")
     ELSE IF GateBusy
       THEN Finish(p, "busy")
     ELSE /\ Suspend(p, [cmd |-> cmd, chat |-> c, arg |-> text],
                     [NoLoc EXCEPT
                        !.isPush = isPush,
                        !.userText = IF isPush THEN pending[1].description
                                     ELSE text],
                     "ack")
          /\ reply' = "running"
          /\ UNCHANGED <<call, buf>>
  /\ UNCHANGED <<busy, sessionFile>> /\ SameConfig

\* bot.js:848-886: buildHistoryContext, then the attachments are awaited.
ToMedia(p) ==
  /\ sessions' = getSession(sessions, msg[p].chat)
  /\ pc' = [pc EXCEPT ![p] = "media"]
  /\ call' = [call EXCEPT ![p] = NoCall]

\* bot.js:1009-1013: the catch block up to its first await; l are the
\* handler's locals when the error was thrown.
CatchWith(p, kind, l) ==
  /\ call' = [call EXCEPT ![p] = NoCall]
  /\ loc' = [loc EXCEPT ![p] = [l EXCEPT !.error = kind]]
  /\ IF msg[p].cmd = "confirmpush"
       THEN /\ sessions' = ClearPending(p)
            /\ pc' = [pc EXCEPT ![p] = "catch_mkdir"]
       ELSE /\ UNCHANGED sessions
            /\ pc' = [pc EXCEPT ![p] = "catch_send"]

Catch(p, kind) == CatchWith(p, kind, loc[p])

\* bot.js:978-981: the staged push is dropped and the store saved.
ToSave(p) ==
  /\ sessions' = IF loc[p].isPush THEN ClearPending(p) ELSE sessions
  /\ pc' = [pc EXCEPT ![p] = "save_mkdir"]
  /\ call' = [call EXCEPT ![p] = NoCall]

\* bot.js:822-828: "Running..." was sent; the flag is set only now.
AckSent(p) ==
  /\ pc[p] = "ack"
  /\ busy' = TRUE
  /\ IF loc[p].isPush
       THEN /\ pc' = [pc EXCEPT ![p] = "head_before"]
            /\ call' = [call EXCEPT ![p] = getHeadCommit]
            /\ UNCHANGED sessions
       ELSE ToMedia(p)
  /\ UNCHANGED <<sessionFile, msg, loc, buf>> /\ Quiet /\ SameRepo

\* bot.js:828-837: HEAD before the task, then the probe of .git-codex.
HeadBefore(p, code, head) ==
  /\ pc[p] = "head_before"
  /\ IF code # 0
       THEN Catch(p, "head")
       ELSE /\ loc' = [loc EXCEPT ![p].headBefore = head]
            /\ pc' = [pc EXCEPT ![p] = "probe"]
            /\ call' = [call EXCEPT ![p] = codexAheadProbe]
            /\ UNCHANGED sessions
  /\ UNCHANGED <<busy, sessionFile, msg, buf>> /\ Quiet /\ SameRepo

\* The probe is not looked at.
ProbeIgnored(code, codexAhead) == FALSE

\* bot.js:838-840: the probe ran and counted commits ahead in .git-codex.
ProbeAborts(code, codexAhead) == code = 0 /\ codexAhead > 0

\* bot.js:838-848
Probe(p, code, codexAhead) ==
  /\ pc[p] = "probe"
  /\ LET l == [loc[p] EXCEPT !.probe = IF code = 0 /\ codexAhead > 0
                                        THEN "ahead" ELSE "clean"]
     IN IF ProbeAborts(code, codexAhead)
          THEN CatchWith(p, "codex_ahead", l)
          ELSE ToMedia(p) /\ loc' = [loc EXCEPT ![p] = l]
  /\ UNCHANGED <<busy, sessionFile, msg, buf>> /\ Quiet /\ SameRepo

\* bot.js:882-936: the attachments are done (a failed download throws), the
\* user turn is recorded and the task started.
Media(p, ok) ==
  /\ pc[p] = "media"
  /\ IF ~ok
       THEN Catch(p, "download")
       ELSE /\ sessions' =
                 addHistory(sessions, msg[p].chat, "user", historyUserText(p))
            /\ pc' = [pc EXCEPT ![p] = "codex"]
            /\ call' = [call EXCEPT ![p] = runCodex(loc[p].isPush)]
            /\ UNCHANGED loc
  /\ UNCHANGED <<busy, sessionFile, msg, buf>> /\ Quiet /\ SameRepo

\* A result that is sanitized whatever the flow.
resultSanitized(isPush, resultRaw) == asString(sanitizePushNarration(resultRaw))

\* bot.js:937: isPush ? sanitizePushNarration(resultRaw) : resultRaw
resultOf(isPush, resultRaw) ==
  IF isPush THEN asString(sanitizePushNarration(resultRaw))
  ELSE asString(resultRaw)

\* bot.js:936-943, 975: the task settled.
Codex(p, outcome, out) ==
  /\ pc[p] = "codex"
  /\ IF outcome # "ok"
       THEN Catch(p, outcome)
       ELSE LET result == resultOf(loc[p].isPush, out)
            IN /\ sessions' =
                    addHistory(sessions, msg[p].chat, "assistant", result)
               /\ loc' = [loc EXCEPT ![p].result = result]
               /\ IF loc[p].isPush
                    THEN /\ pc' = [pc EXCEPT ![p] = "head_after"]
                         /\ call' = [call EXCEPT ![p] = getHeadCommit]
                    ELSE /\ pc' = [pc EXCEPT ![p] = "diff"]
                         /\ call' = [call EXCEPT ![p] = buildDiffPreview("")]
  /\ UNCHANGED <<busy, sessionFile, msg, buf>> /\ Quiet /\ SameRepo

\* bot.js:943-944
HeadAfter(p, code, head) ==
  /\ pc[p] = "head_after"
  /\ IF code # 0
       THEN Catch(p, "head")
       ELSE /\ loc' = [loc EXCEPT ![p].headAfter = head]
            /\ pc' = [pc EXCEPT ![p] = "ahead"]
            /\ call' = [call EXCEPT ![p] = getAheadCount]
            /\ UNCHANGED sessions
  /\ UNCHANGED <<busy, sessionFile, msg, buf>> /\ Quiet /\ SameRepo

\* The skip branch is never taken.
PushAlways(headBefore, headAfter, ahead) == FALSE

\* bot.js:945: no new commit and nothing ahead of the remote branch.
NothingToPush(headBefore, headAfter, ahead) ==
  headAfter = headBefore /\ ahead = 0

\* bot.js:530-536, 944-959: the ahead count decides between skip and push.
Ahead(p, code, count) ==
  /\ pc[p] = "ahead"
  /\ LET ahead == IF code # 0 THEN 0 ELSE count IN
     /\ loc' = [loc EXCEPT ![p].ahead = ahead]
     /\ IF NothingToPush(loc[p].headBefore, loc[p].headAfter, ahead)
          THEN /\ pc' = [pc EXCEPT ![p] = "status"]
               /\ call' = [call EXCEPT ![p] = gitStatus]
          ELSE /\ pc' = [pc EXCEPT ![p] = "push"]
               /\ call' = [call EXCEPT ![p] = gitPush]
  /\ UNCHANGED <<busy, msg, buf>> /\ Quiet /\ SameSessions /\ SameRepo

\* bot.js:946-953, 978-981
Status(p, dirty) ==
  /\ pc[p] = "status"
  /\ loc' = [loc EXCEPT ![p].status =
               IF dirty THEN "skipped_dirty" ELSE "skipped_clean"]
  /\ ToSave(p)
  /\ UNCHANGED <<busy, sessionFile, msg, buf>> /\ Quiet /\ SameRepo

\* The exit code of git push is not looked at.
PushNeverFails(code) == FALSE

\* bot.js:960: the exit code of git push.
PushFailed(code) == code # 0

\* bot.js:955-969
Push(p, code) ==
  /\ pc[p] = "push"
  /\ LET l == [loc[p] EXCEPT !.pushResult = IF code = 0 THEN "ok" ELSE "failed"]
     IN IF PushFailed(code)
          THEN CatchWith(p, "push_failed", l)
          ELSE /\ loc' = [loc EXCEPT ![p] = [l EXCEPT !.status = "success"]]
               /\ pc' = [pc EXCEPT ![p] = "diff"]
               /\ call' = [call EXCEPT ![p] =
                             buildDiffPreview(loc[p].headAfter)]
               /\ UNCHANGED sessions
  /\ UNCHANGED <<busy, sessionFile, msg, buf>> /\ Quiet /\ SameRepo

\* bot.js:969-981: the diff preview returned.
Diff(p) ==
  /\ pc[p] = "diff"
  /\ ToSave(p)
  /\ UNCHANGED <<busy, sessionFile, msg, loc, buf>> /\ Quiet /\ SameRepo

\* bot.js:981-985: the store is written.
MainSaved(p) ==
  /\ pc[p] = "save_write"
  /\ msg[p].cmd \in {"plain", "confirmpush"}
  /\ sessionFile' = buf[p].content
  /\ buf' = [buf EXCEPT ![p] = NoBuf]
  /\ IF loc[p].isPush
       THEN /\ pc' = [pc EXCEPT ![p] = "send"]
            /\ UNCHANGED call
       ELSE /\ pc' = [pc EXCEPT ![p] = "has_work"]
            /\ call' = [call EXCEPT ![p] = getAheadCount]
  /\ UNCHANGED <<busy, sessions, msg, loc>> /\ Quiet /\ SameRepo

\* A probe that reports work whatever git says.
hasWorkAlways(ahead, dirty) == TRUE

\* bot.js:555-565: hasWorkNotOnRemote; the working tree is looked at only
\* when nothing is ahead of the remote branch.
hasWorkNotOnRemote(ahead, dirty) == ahead > 0 \/ dirty

\* bot.js:983-995: the keyboard of a plain request; `clean` is what git
\* status reports outside the inputs directory.
HasWork(p, ahead, clean) ==
  /\ pc[p] = "has_work"
  /\ LET dirty == IF ahead > 0 THEN FALSE ELSE ~clean IN
     loc' = [loc EXCEPT ![p].ahead = ahead,
                        ![p].dirty = dirty,
                        ![p].status =
                          IF hasWorkNotOnRemote(ahead, dirty) THEN "keyboard"
                          ELSE "no_keyboard"]
  /\ pc' = [pc EXCEPT ![p] = "send"]
  /\ call' = [call EXCEPT ![p] = NoCall]
  /\ UNCHANGED <<busy, msg, buf>> /\ Quiet /\ SameSessions /\ SameRepo

\* A finally block that leaves the flag up.
ReleaseForgotten == TRUE

\* bot.js:1016-1018: the finally block.
Release == FALSE

\* bot.js:1008, 1016-1018: the result is sent, the flag dropped.
Sent(p) ==
  /\ pc[p] = "send"
  /\ reply' = IF loc[p].isPush THEN "push_" \o loc[p].status
              ELSE "result_" \o loc[p].status
  /\ busy' = Release
  /\ Return(p)
  /\ SameSessions /\ SameRepo

\* bot.js:1012-1014: the catch block's save is written.
CatchSaved(p) ==
  /\ pc[p] = "catch_write"
  /\ sessionFile' = buf[p].content
  /\ buf' = [buf EXCEPT ![p] = NoBuf]
  /\ pc' = [pc EXCEPT ![p] = "catch_send"]
  /\ UNCHANGED <<busy, sessions, msg, loc, call>> /\ Quiet /\ SameRepo

\* bot.js:1014-1018: the error is sent, the flag dropped.
CatchSent(p) ==
  /\ pc[p] = "catch_send"
  /\ reply' = "error_" \o loc[p].error
  /\ busy' = Release
  /\ Return(p)
  /\ SameSessions /\ SameRepo

\* ----------------------------------------------- dropped messages (660-677)
\* bot.js:660-663, 677: a message from a group, from another user, or with
\* nothing in it: the handler returns.
RecvIgnored(p, e) ==
  /\ Delivered(p)
  /\ ~Accepts(e.type, e.from) \/ e.empty
  /\ Noted(e)
  /\ pc' = [pc EXCEPT ![p] = "done"]
  /\ UNCHANGED <<busy, msg, loc, call, buf>> /\ Quiet
  /\ SameSessions /\ SameConfig

\* ------------------------------------------------------------ /pr (751-798)
getCurrentBranch == runGit(<<"rev-parse", "--abbrev-ref", "HEAD">>)
ensureBranchPushed(branch) == runGit(<<"push", config.targetRemote, branch>>)
getRepoSlug == runGit(<<"remote", "get-url", config.targetRemote>>)
createPullRequest(branch) ==
  [tool |-> "github", head |-> branch, base |-> config.targetBranch]

\* bot.js:751-774: the checks, then the flag is set with no await between.
RecvPr(p, c, title) ==
  /\ Arrives(p)
  /\ IF title = ""
       THEN Finish(p, "usage_pr") /\ UNCHANGED busy
     ELSE IF ~githubToken
       THEN Finish(p, "pr_no_token") /\ UNCHANGED busy
     ELSE IF GateBusy
       THEN Finish(p, "busy") /\ UNCHANGED busy
     ELSE /\ busy' = TRUE
          /\ Suspend(p, [cmd |-> "pr", chat |-> c, arg |-> title], NoLoc,
                     "pr_ack")
          /\ reply' = "pr_creating"
          /\ UNCHANGED <<call, buf>>
  /\ SameSessions /\ SameConfig

\* bot.js:787-792: the catch block of /pr up to its sendMessage.
PrCatch(p) ==
  /\ pc' = [pc EXCEPT ![p] = "pr_fail"]
  /\ call' = [call EXCEPT ![p] = NoCall]

\* One await of the /pr flow resolved: `ok` is whether it returned, `next`
\* the await that follows it, `c` the process or request that one waits for
\* and `l` the handler's locals from here on.
PrStep(p, at, ok, next, c, l) ==
  /\ pc[p] = at
  /\ IF ok
       THEN /\ pc' = [pc EXCEPT ![p] = next]
            /\ call' = [call EXCEPT ![p] = c]
            /\ loc' = [loc EXCEPT ![p] = l]
       ELSE PrCatch(p) /\ UNCHANGED loc
  /\ UNCHANGED <<busy, msg, buf>> /\ Quiet /\ SameSessions /\ SameRepo

PrAck(p) == PrStep(p, "pr_ack", TRUE, "pr_branch", getCurrentBranch, loc[p])
PrBranch(p, code, branch) ==
  PrStep(p, "pr_branch", code = 0, "pr_push", ensureBranchPushed(branch),
         [loc[p] EXCEPT !.branch = branch])
PrPush(p, code) ==
  PrStep(p, "pr_push", code = 0, "pr_head", getHeadCommit, loc[p])
PrHead(p, code, head) ==
  PrStep(p, "pr_head", code = 0, "pr_diff", buildDiffPreview(head), loc[p])
PrDiff(p) == PrStep(p, "pr_diff", TRUE, "pr_slug", getRepoSlug, loc[p])
PrSlug(p, ok) ==
  PrStep(p, "pr_slug", ok, "pr_create", createPullRequest(loc[p].branch),
         loc[p])
PrCreate(p, ok) == PrStep(p, "pr_create", ok, "pr_send", NoCall, loc[p])

\* bot.js:783-796: the outcome is sent, then the finally block.
PrSent(p) ==
  /\ pc[p] \in {"pr_send", "pr_fail"}
  /\ reply' = IF pc[p] = "pr_send" THEN "pr_created" ELSE "pr_failed"
  /\ busy' = Release
  /\ Return(p)
  /\ SameSessions /\ SameRepo

\* ---------------------------------------------------------- /repo (312-411)
\* bot.js:329: the flag is read.
RepoBusy == busy

\* repoAliasStore.aliases[alias] = def
WithAlias(aliases, alias, def) ==
  [a \in DOMAIN aliases \cup {alias} |->
     IF a = alias THEN def ELSE aliases[a]]

\* delete repoAliasStore.aliases[alias]
WithoutAlias(aliases, alias) ==
  [a \in DOMAIN aliases \ {alias} |-> aliases[a]]

\* The handler replies and returns without touching the registry.
RepoReply(p, text) ==
  /\ Finish(p, text)
  /\ UNCHANGED <<busy, repoAliasStore>>

\* The handler enters applyRepoSelection(def, alias) and awaits access().
RepoApply(p, c, action, def, alias) ==
  Suspend(p, [cmd |-> "repo", chat |-> c, arg |-> action],
          [NoLoc EXCEPT !.def = def, !.alias = alias, !.apply = TRUE],
          "apply_access")

\* bot.js:312-405: handleRepoCommand up to its first await.
RecvRepo(p, c, action, raw, path) ==
  LET aliasName == normalizeAliasName(raw)
      aliases == repoAliasStore.aliases
  IN
  /\ Arrives(p)
  /\ CASE action = "help" -> RepoReply(p, "repo_help")
       [] action = "list" -> RepoReply(p, "repo_list")
       [] action \notin {"help", "list"} /\ RepoBusy ->
            RepoReply(p, "repo_busy")
       [] action = "add" /\ ~RepoBusy ->
            IF aliasName = "" \/ aliasName \in RESERVED_ALIASES
              THEN RepoReply(p, "repo_bad_alias")
            ELSE IF path = ""
              THEN RepoReply(p, "repo_usage_add")
            ELSE /\ Suspend(p, [cmd |-> "repo", chat |-> c, arg |-> action],
                            [NoLoc EXCEPT
                               !.def = [dir |-> path,
                                        branch |-> defaultRepoDef.branch,
                                        remote |-> defaultRepoDef.remote],
                               !.alias = aliasName],
                            "add_access")
                 /\ UNCHANGED <<busy, repoAliasStore, call, buf>> /\ Quiet
       [] action = "use" /\ ~RepoBusy ->
            IF aliasName = ""
              THEN RepoReply(p, "repo_usage_use")
            ELSE IF aliasName = "default"
              THEN /\ RepoApply(p, c, action, defaultRepoDef, NoActive)
                   /\ UNCHANGED <<busy, repoAliasStore, call, buf>> /\ Quiet
            ELSE IF aliasName \notin DOMAIN aliases
              THEN RepoReply(p, "repo_not_found")
            ELSE /\ RepoApply(p, c, action, aliases[aliasName], aliasName)
                 /\ UNCHANGED <<busy, repoAliasStore, call, buf>> /\ Quiet
       [] action = "remove" /\ ~RepoBusy ->
            IF aliasName = "" \/ aliasName \in RESERVED_ALIASES
              THEN RepoReply(p, "repo_usage_remove")
            ELSE IF aliasName \notin DOMAIN aliases
              THEN RepoReply(p, "repo_not_found")
            ELSE IF repoAliasStore.active = aliasName
              THEN /\ repoAliasStore' =
                        [aliases |-> WithoutAlias(aliases, aliasName),
                         active |-> NoActive]
                   /\ RepoApply(p, c, action, defaultRepoDef, NoActive)
                   /\ UNCHANGED <<busy, call, buf>> /\ Quiet
            ELSE /\ repoAliasStore' =
                      [repoAliasStore EXCEPT
                         !.aliases = WithoutAlias(aliases, aliasName)]
                 /\ Suspend(p, [cmd |-> "repo", chat |-> c, arg |-> action],
                            NoLoc, "alias_mkdir")
                 /\ UNCHANGED <<busy, call, buf>> /\ Quiet
       [] OTHER -> RepoReply(p, "repo_unknown")
  /\ UNCHANGED <<aliasFile, config, githubToken>> /\ SameSessions

\* bot.js:352-358, 282-285: access() of /repo add settled.
AddAccess(p, ok) ==
  /\ pc[p] = "add_access"
  /\ IF ok
       THEN /\ repoAliasStore' =
                 [repoAliasStore EXCEPT
                    !.aliases = WithAlias(@, loc[p].alias, loc[p].def)]
            /\ pc' = [pc EXCEPT ![p] = "alias_mkdir"]
            /\ UNCHANGED <<msg, loc, call, buf>> /\ Quiet
       ELSE /\ reply' = "repo_not_git"
            /\ Return(p)
            /\ UNCHANGED repoAliasStore
  /\ UNCHANGED <<busy, aliasFile, config, githubToken, arg, res>>
  /\ SameSessions

\* bot.js:235-249: access() of applyRepoSelection settled.  When it fails
\* the handler's promise rejects and nothing is sent.
ApplyAccess(p, ok) ==
  /\ pc[p] = "apply_access"
  /\ IF ok
       THEN /\ config' = ConfigFor(loc[p].def)
            /\ repoAliasStore' = [repoAliasStore EXCEPT !.active = loc[p].alias]
            /\ pc' = [pc EXCEPT ![p] = "alias_mkdir"]
            /\ UNCHANGED <<msg, loc, call, buf>>
       ELSE /\ Return(p)
            /\ UNCHANGED <<config, repoAliasStore>>
  /\ UNCHANGED <<busy, aliasFile, githubToken, arg, res>> /\ Quiet
  /\ SameSessions

\* bot.js:226-233: saveRepoAliasStore after `await mkdir`.
AliasMkdirDone(p) ==
  /\ pc[p] = "alias_mkdir"
  /\ buf' = [buf EXCEPT ![p] = [file |-> "aliases", content |-> repoAliasStore]]
  /\ pc' = [pc EXCEPT ![p] = "alias_write"]
  /\ UNCHANGED <<busy, msg, loc, call>> /\ Quiet /\ SameSessions /\ SameRepo

\* bot.js:250-254: the alias file is written; applyRepoSelection empties the
\* session store, every other caller replies.
AliasSaved(p) ==
  /\ pc[p] = "alias_write"
  /\ aliasFile' = buf[p].content
  /\ IF loc[p].apply
       THEN /\ sessions' = EmptyStore
            /\ loc' = Detach(Chats)
            /\ pc' = [pc EXCEPT ![p] = "reset_mkdir"]
            /\ buf' = [buf EXCEPT ![p] = NoBuf]
            /\ UNCHANGED <<msg, call>> /\ Quiet
       ELSE /\ reply' = IF msg[p].arg = "add" THEN "repo_added"
                        ELSE "repo_removed"
            /\ Return(p)
            /\ UNCHANGED sessions
  /\ UNCHANGED <<busy, sessionFile, repoAliasStore, config, githubToken,
                 arg, res>>

\* bot.js:372-402: the emptied store is written and the handler replies.
ResetSaved(p) ==
  /\ pc[p] = "reset_write"
  /\ sessionFile' = buf[p].content
  /\ reply' = IF msg[p].arg = "use" THEN "repo_active" ELSE "repo_removed"
  /\ Return(p)
  /\ UNCHANGED <<busy, sessions>> /\ SameRepo

Next ==
  \/ \E p \in Procs, c \in Chats : RecvStart(p, c)
  \/ \E p \in Procs, c \in Chats : RecvState(p, c)
  \/ \E p \in Procs, c \in Chats : RecvNew(p, c)
  \/ \E p \in Procs, c \in Chats, d \in Descs \cup {""} : RecvPush(p, c, d)
  \/ \E p \in Procs, c \in Chats : RecvCancelPush(p, c)
  \/ \E p \in Procs, c \in Chats, t \in Texts : RecvRequest(p, c, "plain", t)
  \/ \E p \in Procs, c \in Chats : RecvRequest(p, c, "confirmpush", "")
  \/ \E p \in Procs : SaveMkdirDone(p)
  \/ \E p \in Procs : SimpleSaved(p)
  \/ \E p \in Procs : AckSent(p)
  \/ \E p \in Procs, code \in {0, 1} : HeadBefore(p, code, "h0")
  \/ \E p \in Procs, code \in {0, 1}, n \in 0..MaxAhead : Probe(p, code, n)
  \/ \E p \in Procs, ok \in BOOLEAN : Media(p, ok)
  \/ \E p \in Procs, o \in {"ok", "timeout", "exit", "spawn"}, out \in Outputs :
       Codex(p, o, out)
  \/ \E p \in Procs, code \in {0, 1}, h \in Heads : HeadAfter(p, code, h)
  \/ \E p \in Procs, code \in {0, 1}, n \in 0..MaxAhead : Ahead(p, code, n)
  \/ \E p \in Procs, dirty \in BOOLEAN : Status(p, dirty)
  \/ \E p \in Procs, code \in {0, 1} : Push(p, code)
  \/ \E p \in Procs : Diff(p)
  \/ \E p \in Procs : MainSaved(p)
  \/ \E p \in Procs, n \in 0..MaxAhead, clean \in BOOLEAN : HasWork(p, n, clean)
  \/ \E p \in Procs : Sent(p)
  \/ \E p \in Procs : CatchSaved(p)
  \/ \E p \in Procs : CatchSent(p)
  \/ \E p \in Procs, e \in Envelopes : RecvIgnored(p, e)
  \/ \E p \in Procs, c \in Chats, t \in {"", "T"} : RecvPr(p, c, t)
  \/ \E p \in Procs : PrAck(p)
  \/ \E p \in Procs, code \in {0, 1}, b \in Branches : PrBranch(p, code, b)
  \/ \E p \in Procs, code \in {0, 1} : PrPush(p, code)
  \/ \E p \in Procs, code \in {0, 1} : PrHead(p, code, "h1")
  \/ \E p \in Procs : PrDiff(p)
  \/ \E p \in Procs, ok \in BOOLEAN : PrSlug(p, ok)
  \/ \E p \in Procs, ok \in BOOLEAN : PrCreate(p, ok)
  \/ \E p \in Procs : PrSent(p)
  \/ \E p \in Procs, c \in Chats, r \in RepoCommands :
       RecvRepo(p, c, r[1], r[2], r[3])
  \/ \E p \in Procs, ok \in BOOLEAN : AddAccess(p, ok)
  \/ \E p \in Procs, ok \in BOOLEAN : ApplyAccess(p, ok)
  \/ \E p \in Procs : AliasMkdirDone(p)
  \/ \E p \in Procs : AliasSaved(p)
  \/ \E p \in Procs : ResetSaved(p)

Spec == Init /\ [][Next]_vars

\* ------------------------------------------- runs of /repo commands only
\* A second /repo add of the alias, with another path.
ReAdds == {<<"add", "A", "/q">>}

NextRepo ==
  \/ \E p \in Procs, c \in Chats, r \in RepoCommands \cup ReAdds :
       RecvRepo(p, c, r[1], r[2], r[3])
  \/ \E p \in Procs, ok \in BOOLEAN : AddAccess(p, ok)
  \/ \E p \in Procs, ok \in BOOLEAN : ApplyAccess(p, ok)
  \/ \E p \in Procs : AliasMkdirDone(p)
  \/ \E p \in Procs : AliasSaved(p)
  \/ \E p \in Procs : SaveMkdirDone(p)
  \/ \E p \in Procs : ResetSaved(p)

SpecRepo == Init /\ [][NextRepo]_vars

\* ------------------------------------------------------------ properties
\* The commands the flag `busy` guards.
GuardedCmds == {"plain", "confirmpush", "pr"}

\* The handler p runs a guarded operation: it has set the flag and has not
\* reached the end of its finally block.
Running(p) ==
  /\ msg[p].cmd \in GuardedCmds
  /\ pc[p] \notin {"wait", "done", "ack"}

\* C1: at most one guarded operation (a plain request, a /confirmpush run or
\* a /pr) is in flight at any time.
C1_SingleFlight == Cardinality({p \in Procs : Running(p)}) <= 1

\* C2: every step that ends a guarded operation, whether it sends the result
\* or an error (a failed task, a timeout, a failed push), leaves the flag
\* released, so a request that arrives next is not turned away.
C2_Released ==
  [][\A p \in Procs : Running(p) /\ pc'[p] = "done" => ~GateBusy']_vars

\* C2, witness: a guarded operation just ended in an error and the flag is
\* down.
C2_Witness ==
  /\ reply \in {"error_timeout", "error_push_failed", "error_exit"}
  /\ ~busy

\* The handler p arrives, replies `text` and returns in this step.
Rejects(p, text) == pc[p] = "wait" /\ pc'[p] = "done" /\ reply' = text

\* Nothing but the session store and the arriving handler's position changes:
\* no file, no flag, no registry, no process started, nothing kept of the
\* message, no other handler moved.
NothingElse(p) ==
  /\ UNCHANGED <<busy, sessionFile, repoAliasStore, aliasFile, config,
                 githubToken, msg, loc, call, buf>>
  /\ \A q \in Procs \ {p} : pc'[q] = pc[q]

\* Every session of `old` is the same in `new`, and a session only `new` has
\* is empty.
OnlyCreated(old, new) ==
  /\ DOMAIN old \subseteq DOMAIN new
  /\ \A c \in DOMAIN new :
       new[c] = IF c \in DOMAIN old THEN old[c] ELSE EmptySession

\* The staged push of chat c in a store (null when the chat has no session).
PendingOf(store, c) ==
  IF c \in DOMAIN store THEN store[c].pendingPush ELSE Null

\* C3 as stated: a request turned away because the flag is up has no other
\* effect: the session store, the files, the registry and the configuration
\* are as before, no process is started and nothing is kept of the request.
C3_NoEffect ==
  [][\A p \in Procs :
       Rejects(p, "busy") \/ Rejects(p, "repo_busy")
         => NothingElse(p) /\ sessions' = sessions]_vars

\* C3 as amended: a request turned away because the flag is up changes no
\* existing session, file, registry or configuration, starts no process and
\* is not kept; the one thing it may do is create the chat's empty session
\* in memory.
C3_OnlyCreates ==
  [][\A p \in Procs :
       Rejects(p, "busy") \/ Rejects(p, "repo_busy")
         => NothingElse(p) /\ OnlyCreated(sessions, sessions')]_vars

\* C3, witness: a request was just turned away while a guarded operation
\* runs, and the chat's session, created by the way, is not in the file.
C3_Witness ==
  /\ reply = "busy"
  /\ busy
  /\ \E c \in DOMAIN sessions \ DOMAIN sessionFile : sessions[c] = EmptySession

\* The step ends the run of an accepted /confirmpush of handler p.
EndsConfirmPush(p) ==
  /\ msg[p].cmd = "confirmpush"
  /\ pc[p] \in {"send", "catch_send"}
  /\ pc'[p] = "done"

\* The staged push x is none that the handler p could have run: it is null
\* or was staged after p's message arrived.
Gone(x, p) == x = Null \/ x[1].createdAt > p

\* C4: when an accepted /confirmpush ends, with the push made, skipped or
\* failed or the task failed or timed out, the chat's pendingPush is null in
\* memory and in the session file (a push staged after the /confirmpush
\* arrived is not held against it).
C4_PendingCleared ==
  [][\A p \in Procs :
       EndsConfirmPush(p)
         => /\ Gone(PendingOf(sessions', msg[p].chat), p)
            /\ Gone(PendingOf(sessionFile', msg[p].chat), p)]_vars

\* The handler p awaits the task executor under the commit policy, or the
\* git push of the staged flow.
CommitsOrPushes(p) ==
  \/ call[p].tool = "codex" /\ call[p].policy = "commit"
  \/ pc[p] = "push"

\* C5: the executor runs under the commit policy, and the staged flow's git
\* push runs, only in the handler of a /confirmpush that found a staged
\* description; the handler of a plain text never does either.
C5_OnlyConfirmed ==
  \A p \in Procs :
    CommitsOrPushes(p)
      => /\ msg[p].cmd = "confirmpush"
         /\ loc[p].isPush
         /\ loc[p].userText \in Descs

\* C5, witness: a /confirmpush handler awaits git push.
C5_Witness ==
  \E p \in Procs :
    pc[p] = "push" /\ call[p] = gitPush /\ msg[p].cmd = "confirmpush"

\* C6: /push with a description stages it: the chat's pendingPush becomes
\* that description with a timestamp later than the one it replaces, the
\* history and everything else stay, no process is started by the handler,
\* and when it replies the file holds the staged push unless memory has
\* moved on since; /push with no description is answered with the usage
\* line and the stores stay as they are.
C6_Stages ==
  [][\A p \in Procs :
       /\ pc[p] = "wait" /\ msg'[p].cmd = "push"
            => LET c == msg'[p].chat
                   was == PendingOf(sessions, c)
                   now == PendingOf(sessions', c)
               IN /\ msg'[p].arg # ""
                  /\ now # Null
                  /\ now[1].description = msg'[p].arg
                  /\ was # Null => was[1].createdAt < now[1].createdAt
                  /\ sessions'[c].history = getSession(sessions, c)[c].history
                  /\ \A d \in DOMAIN sessions' \ {c} :
                       d \in DOMAIN sessions /\ sessions'[d] = sessions[d]
                  /\ UNCHANGED <<busy, sessionFile, repoAliasStore, aliasFile,
                                 config, call>>
       /\ msg[p].cmd = "push" /\ pc'[p] = "done"
            => /\ reply' \in {"staged", "staged_keyboard"}
               /\ PendingOf(sessions, msg[p].chat) = Pending(msg[p].arg, p)
                    => PendingOf(sessionFile', msg[p].chat)
                         = Pending(msg[p].arg, p)
       /\ msg'[p].cmd = "push" => call'[p] = NoCall
       /\ Rejects(p, "usage_push")
            => NothingElse(p) /\ sessions' = sessions]_vars

\* C6, witness: a /push was staged over an older staged push and the file
\* holds it.
C6_Witness ==
  /\ reply = "staged"
  /\ \E c \in DOMAIN sessionFile :
       /\ sessionFile[c].pendingPush # Null
       /\ sessionFile[c].pendingPush[1].createdAt > 1
       /\ sessionFile[c].history # <<>>

\* C7: /cancelpush sets the chat's pendingPush to null and nothing else
\* changes: the history, the other sessions, the flag, the registry and the
\* configuration stay and no process is started; when the handler replies,
\* the file it wrote holds no push staged before the /cancelpush.
C7_Cancels ==
  [][\A p \in Procs :
       /\ pc[p] = "wait" /\ msg'[p].cmd = "cancelpush"
            => LET c == msg'[p].chat
               IN /\ PendingOf(sessions', c) = Null
                  /\ c \in DOMAIN sessions'
                  /\ sessions'[c].history = getSession(sessions, c)[c].history
                  /\ \A d \in DOMAIN sessions' \ {c} :
                       d \in DOMAIN sessions /\ sessions'[d] = sessions[d]
                  /\ UNCHANGED <<busy, sessionFile, repoAliasStore, aliasFile,
                                 config, call>>
       /\ msg[p].cmd = "cancelpush" /\ pc'[p] = "done"
            => LET left == PendingOf(sessionFile', msg[p].chat)
               IN /\ reply' = "canceled"
                  /\ left = Null \/ left[1].createdAt > p
                  /\ UNCHANGED <<busy, sessions, repoAliasStore, aliasFile,
                                 config>>
       /\ msg'[p].cmd = "cancelpush" => call'[p] = NoCall]_vars

\* C7, witness: a /cancelpush was just answered, and the session it cleared
\* still has its history, in memory and in the file.
C7_Witness ==
  /\ reply = "canceled"
  /\ \E c \in DOMAIN sessions :
       /\ sessions[c].pendingPush = Null
       /\ sessions[c].history # <<>>
       /\ c \in DOMAIN sessionFile
       /\ sessionFile[c] = sessions[c]

\* C8 as stated: /confirmpush with no staged push is answered with the hint
\* to stage first and mutates nothing.
C8_MutatesNothing ==
  [][\A p \in Procs :
       Rejects(p, "no_pending")
         => NothingElse(p) /\ sessions' = sessions]_vars

\* C8 as amended: /confirmpush with no staged push is answered with the hint
\* to stage first and never runs; it changes no existing session, no file,
\* no flag, no registry, and at most creates the chat's empty session in
\* memory.
C8_OnlyCreates ==
  [][\A p \in Procs :
       /\ Rejects(p, "no_pending")
            => NothingElse(p) /\ OnlyCreated(sessions, sessions')
       /\ msg'[p].cmd = "confirmpush" => loc'[p].isPush]_vars

\* C8, witness: a /confirmpush was just answered "no pending push" and the
\* chat's session exists in memory but not in the file.
C8_Witness ==
  /\ reply = "no_pending"
  /\ \E c \in DOMAIN sessions \ DOMAIN sessionFile : sessions[c] = EmptySession

\* The /confirmpush handler p has read HEAD and the ahead count after the
\* task.
Compared(p) ==
  /\ loc[p].isPush
  /\ pc[p] \in {"status", "push", "diff", "save_mkdir", "save_write", "send",
               "catch_mkdir", "catch_write", "catch_send"}
  /\ loc[p].headAfter # ""

\* HEAD did not move and no commit is ahead of the remote branch.
NoNewWork(p) ==
  loc[p].headAfter = loc[p].headBefore /\ loc[p].ahead = 0

\* C9: after the task of a /confirmpush, when HEAD is unchanged and the
\* ahead count is 0, the handler awaits git status and never git push, and
\* the status it reports is Skipped (dirty or clean), never success.
C9_Skipped ==
  [][\A p \in Procs :
       /\ Compared(p)' /\ NoNewWork(p)'
            => /\ pc'[p] \notin {"push", "diff", "catch_mkdir", "catch_write",
                                "catch_send"}
               /\ pc'[p] = "status" => call'[p].tool = "git"
               /\ call'[p].tool = "git" => call'[p].args[3] = "status"
               /\ loc'[p].pushResult = ""
               /\ loc'[p].status \in {"", "skipped_dirty", "skipped_clean"}
       /\ Compared(p) /\ NoNewWork(p) /\ pc'[p] = "done"
            => reply' \in {"push_skipped_dirty", "push_skipped_clean"}]_vars

\* C9, witness: the skip was just reported with the dirty note.
C9_Witness == reply = "push_skipped_dirty"

\* C10: after the task of a /confirmpush, when HEAD moved or the ahead count
\* is not 0, the handler awaits git push to the configured remote and
\* branch; when that exits nonzero the handler reports "completed, but git
\* push failed" as an error and never the success status.
C10_Pushed ==
  [][\A p \in Procs :
       /\ pc[p] = "ahead" /\ Compared(p)' /\ ~NoNewWork(p)'
            => /\ pc'[p] = "push"
               /\ call'[p] =
                    [tool |-> "git",
                     args |-> <<"-C", config.targetRepoDir, "push",
                                config.targetRemote, config.targetBranch>>]
       /\ loc'[p].pushResult = "failed"
            => /\ loc'[p].status # "success"
               /\ loc'[p].error = "push_failed"
               /\ pc'[p] \in {"catch_mkdir", "catch_write", "catch_send"}
       /\ loc[p].pushResult = "failed" /\ pc'[p] = "done"
            => reply' = "error_push_failed"
       /\ pc[p] = "send" /\ pc'[p] = "done" /\ reply' = "push_success"
            => loc[p].pushResult = "ok"]_vars

\* C10, witness: a failed push was just reported.
C10_Witness == reply = "error_push_failed"

\* The histories of all chats, as getSession returns them.
Histories(store) == [c \in Chats |-> getSession(store, c)[c].history]

\* C11: when the probe of .git-codex counts more than 0 commits ahead, the
\* accepted /confirmpush goes to the error path before the task is started:
\* from then on its handler starts no process (no task, no commit, no push),
\* adds no history turn, and ends with the error about .git-codex.
C11_ProbeAborts ==
  [][\A p \in Procs :
       /\ loc'[p].probe = "ahead"
            => /\ pc'[p] \in {"catch_mkdir", "catch_write", "catch_send"}
               /\ call'[p] = NoCall
               /\ loc'[p].result = ""
               /\ loc'[p].headAfter = ""
               /\ loc'[p].pushResult = ""
               /\ pc'[p] # pc[p] => Histories(sessions') = Histories(sessions)
       /\ loc[p].probe = "ahead" /\ pc'[p] = "done"
            => /\ reply' = "error_codex_ahead"
               /\ Histories(sessions') = Histories(sessions)]_vars

\* C11, witness: the abort was just reported.
C11_Witness == reply = "error_codex_ahead"

\* The handlers whose writeFile of the session store is under way.
Writing == {p \in Procs : buf[p].file = "sessions"}

\* The staged pushes of all chats.
Pendings(store) == [c \in Chats |-> PendingOf(store, c)]

\* C12: while a guarded operation is in flight, the histories, the staged
\* pushes and the session file change only in steps of a handler that runs
\* a guarded operation (a session created empty is no change), and no two
\* writes of the session file are under way at once.
C12_Serialized ==
  [][/\ (\E q \in Procs : Running(q))
          /\ (\A p \in Procs : pc'[p] # pc[p] => ~Running(p))
          => /\ Histories(sessions') = Histories(sessions)
             /\ Pendings(sessions') = Pendings(sessions)
             /\ sessionFile' = sessionFile
     /\ Cardinality(Writing') <= 1]_vars

\* The replies with which /repo add turns a command down.
AddRejections == {"repo_bad_alias", "repo_usage_add", "repo_not_git"}

\* C18: a step in which /repo add turns the command down (reserved or empty
\* alias, empty path, directory without .git) leaves the registry and the
\* alias file as they were; and neither ever has an alias named "default",
\* an alias with an empty name or one with an empty path.
C18_AddRejects ==
  /\ [][reply' \in AddRejections =>
          repoAliasStore' = repoAliasStore /\ aliasFile' = aliasFile]_vars
  /\ [](\A store \in {repoAliasStore, aliasFile} :
          \A a \in DOMAIN store.aliases :
            a \notin {"default", ""} /\ store.aliases[a].dir # "")

\* C18, witness: /repo add was just turned down over the alias name while the
\* registry and the file hold an alias.
C18_Witness ==
  /\ reply = "repo_bad_alias"
  /\ DOMAIN repoAliasStore.aliases # {}
  /\ aliasFile = repoAliasStore

\* The store has no history turn and no staged push.
Cleared(store) == \A c \in DOMAIN store : store[c] = EmptySession

\* C19: when /repo use of an alias or of default ends with its reply and no
\* message has arrived after it, the live configuration is that of the chosen
\* definition, the registry and the alias file record the choice as active,
\* and the session store holds no history turn and no staged push, in memory
\* and in the session file.
C19_UseClears ==
  [][\A p \in Procs :
       pc[p] = "reset_write" /\ pc'[p] = "done" /\ msg[p].arg = "use"
         /\ (\A q \in Procs : (q > p => pc'[q] = "wait"))
         => /\ config' = ConfigFor(loc[p].def)
            /\ repoAliasStore'.active = loc[p].alias
            /\ aliasFile'.active = loc[p].alias
            /\ Cleared(sessions')
            /\ Cleared(sessionFile')]_vars

\* The step is one of /repo remove by handler p, of the active alias or of
\* another one.
RemoveStep(p, active) ==
  /\ pc'[p] # pc[p]
  /\ LET m == IF pc'[p] = "done" THEN msg[p] ELSE msg'[p]
         l == IF pc'[p] = "done" THEN loc[p] ELSE loc'[p]
     IN m.cmd = "repo" /\ m.arg = "remove" /\ l.apply = active

\* C20: when /repo remove of the active alias ends, the registry has no
\* active alias and the live configuration is the default one, in memory as
\* in the alias file, and the session store holds no turn and no staged
\* push; every step of /repo remove of another alias leaves the active
\* selection, the live configuration and the sessions as they were, and its
\* last step writes the registry to the alias file.
C20_Remove ==
  [][\A p \in Procs :
       /\ RemoveStep(p, TRUE) /\ pc'[p] = "done"
          /\ (\A q \in Procs : (q > p => pc'[q] = "wait"))
            => /\ repoAliasStore'.active = NoActive
               /\ aliasFile' = repoAliasStore'
               /\ config' = ConfigFor(defaultRepoDef)
               /\ Cleared(sessions')
               /\ Cleared(sessionFile')
       /\ RemoveStep(p, FALSE)
            => /\ repoAliasStore'.active = repoAliasStore.active
               /\ config' = config
               /\ sessions' = sessions
               /\ sessionFile' = sessionFile
               /\ pc'[p] = "done" => aliasFile' = buf[p].content]_vars

\* The commands that change a session.
MutatingCmds == {"new", "push", "cancelpush", "plain", "confirmpush"}

\* C26: when the handler of a command that changes a session ends, with its
\* result or with an error, and no other handler is in flight, the session
\* file holds every history turn and every staged push of the sessions in
\* memory.
C26_Persisted ==
  [][\A p \in Procs :
       /\ pc[p] \notin {"wait", "done"} /\ pc'[p] = "done"
       /\ msg[p].cmd \in MutatingCmds
       /\ InFlight = {p}
       => /\ Histories(sessionFile') = Histories(sessions')
          /\ Pendings(sessionFile') = Pendings(sessions')]_vars

\* C28: the "/push commit and push" keyboard goes out only with the result
\* of a plain request, and only when the probe made for that reply found
\* commits ahead of the remote branch or uncommitted changes outside the
\* inputs directory.
C28_ButtonOnlyForWork ==
  [][reply' = "result_keyboard"
       => \E p \in Procs :
            /\ pc[p] = "send" /\ pc'[p] = "done"
            /\ msg[p].cmd = "plain" /\ ~loc[p].isPush
            /\ loc[p].ahead > 0 \/ loc[p].dirty]_vars

\* C28, witness: a plain request whose repository had nothing ahead but an
\* uncommitted change is about to be answered with the keyboard.
C28_Witness ==
  \E p \in Procs :
    /\ pc[p] = "send" /\ msg[p].cmd = "plain"
    /\ loc[p].status = "keyboard" /\ loc[p].ahead = 0 /\ loc[p].dirty

\* C30: no step taken while a guarded operation is in flight changes the
\* active repository: the directory, the branch and the remote of config
\* (and the paths derived from them) stay as they are.
C30_RepoFixed ==
  [][(\E p \in Procs : Running(p)) => config' = config]_vars

\* The handler p runs an accepted /confirmpush with its staged description.
ConfirmedRun(p) ==
  /\ msg[p].cmd = "confirmpush" /\ loc[p].isPush
  /\ pc[p] \notin {"wait", "done"}

\* The step is one of the handler q of a /cancelpush, /new or /clear.
CancelStep(q) ==
  /\ pc'[q] # pc[q]
  /\ msg[q].cmd \in {"cancelpush", "new"} \/ msg'[q].cmd \in {"cancelpush", "new"}

\* C31: while an accepted /confirmpush is in flight, no step of a
\* /cancelpush, /new or /clear handler moves it, changes the process it
\* awaits, what it read so far or the flag; and when its task has ended with
\* HEAD moved or commits ahead, it awaits git push even though the staged
\* push was cleared in the store meanwhile.
C31_NotCancelled ==
  [][\A p \in Procs :
       /\ ConfirmedRun(p) /\ (\E q \in Procs \ {p} : CancelStep(q))
            => /\ pc'[p] = pc[p]
               /\ call'[p] = call[p]
               /\ msg'[p] = msg[p]
               /\ [loc'[p] EXCEPT !.stale = loc[p].stale] = loc[p]
               /\ busy' = busy
       /\ ConfirmedRun(p) /\ pc[p] = "ahead" /\ pc'[p] # "ahead"
            /\ ~NoNewWork(p)'
            => pc'[p] = "push" /\ call'[p].tool = "git"]_vars

\* C31, witness: a /confirmpush handler awaits git push although the staged
\* push of its chat is no longer in the store.
C31_Witness ==
  \E p \in Procs :
    /\ ConfirmedRun(p) /\ pc[p] = "push"
    /\ PendingOf(sessions, msg[p].chat) = Null

\* The task outputs as the task wrote them, and after sanitize.
RawResults == {asString(out) : out \in Outputs}
SanitizedResults == {asString(sanitizePushNarration(out)) : out \in Outputs}

\* The content of the last turn of chat c.
LastContent(store, c) == store[c].history[Len(store[c].history)].content[1]

\* C33: when the task of a plain request has ended, its result is the output
\* as the task wrote it, that is what the assistant turn of the history
\* holds, and it is still the handler's result when the reply is sent; only
\* the result of a confirmed push is the sanitized output.
C33_PlainUnsanitized ==
  [][\A p \in Procs :
       /\ pc[p] = "codex" /\ pc'[p] \in {"diff", "head_after"}
            => /\ LastContent(sessions', msg[p].chat) = loc'[p].result
               /\ IF msg[p].cmd = "plain"
                    THEN loc'[p].result \in RawResults
                    ELSE loc[p].isPush /\ loc'[p].result \in SanitizedResults
       /\ loc[p].result # "" /\ pc'[p] # "done"
            => loc'[p].result = loc[p].result
       /\ pc[p] = "send" /\ msg[p].cmd = "plain"
            => loc[p].result \in RawResults]_vars

\* C33, witness: the result of a plain request is about to be sent with the
\* line of push narration the task wrote, which sanitize would have removed.
C33_Witness ==
  \E p \in Procs :
    /\ pc[p] = "send" /\ msg[p].cmd = "plain"
    /\ loc[p].result \in RawResults \ SanitizedResults

\* What the registry's active selection resolves to.
ActiveDef(registry) ==
  IF registry.active # NoActive /\ registry.active \in DOMAIN registry.aliases
    THEN registry.aliases[registry.active]
  ELSE defaultRepoDef

\* C34, for an active alias: whenever no /repo command is in flight and the
\* active alias is one the registry stores, the directory, branch, remote,
\* git directory and inputs directory of config are those of the definition
\* stored for that alias.
C34_ConfigFollows ==
  /\ \A p \in Procs : msg[p].cmd # "repo"
  /\ repoAliasStore.active \in DOMAIN repoAliasStore.aliases
  => config = ConfigFor(ActiveDef(repoAliasStore))

\* The staged push x was acknowledged: the /push handler that staged it has
\* replied (0 is a push the store held at startup).
Acknowledged(x) == x[1].createdAt = 0 \/ pc[x[1].createdAt] = "done"

\* The step of handler q is one that may end the staged push x of chat c: the
\* arrival of /push, /cancelpush, /new or /clear of that chat, a step of a
\* /confirmpush of that chat issued after x was staged, or a step of a /repo
\* command.
MayClear(q, c, x) ==
  /\ pc'[q] # pc[q]
  /\ \/ /\ pc[q] = "wait"
        /\ msg'[q].cmd \in {"push", "cancelpush", "new"}
        /\ msg'[q].chat = c
     \/ /\ msg[q].cmd = "confirmpush" /\ msg[q].chat = c
        /\ q > x[1].createdAt
     \/ msg[q].cmd = "repo"

\* C35: a staged and acknowledged push stays the chat's pendingPush through
\* every step but those of a later /push, /confirmpush, /cancelpush, /new or
\* /clear of the same chat and of a repository switch.
C35_StaysPending ==
  [][\A c \in Chats :
       LET x == PendingOf(sessions, c)
       IN x # Null /\ Acknowledged(x) /\ PendingOf(sessions', c) # x
            => \E q \in Procs : MayClear(q, c, x)]_vars

\* ----------------------------------------------------- study of addHistory
\* The bot's own variables stay as they are.
BotIdle ==
  UNCHANGED <<busy, sessions, sessionFile, repoAliasStore, aliasFile, config,
              githubToken, pc, msg, loc, call, buf, reply>>

\* Sequences over S of length at most n.
SeqsUpTo(S, n) == UNION {[1..k -> S] : k \in 0..n}

\* Contents handed to addHistory.
Contents == SeqsUpTo({"a", "b"}, MaxContentLen)

\* A new conversation under some config.historyStoreLimit; arg.log is every
\* turn handed to addHistory so far, res the stored history.
InitHistory ==
  /\ Started(EmptyStore)
  /\ \E limit \in 1..MaxHistoryLimit :
       arg = [fn |-> "addHistory", limit |-> limit, log |-> <<>>]
  /\ res = <<>>

\* addHistory(chatId, role, content) on the conversation.
AddTurn(role, content) ==
  /\ Len(arg.log) < MaxAdds
  /\ res' = pushHistory(res, role, content, arg.limit)
  /\ arg' = [arg EXCEPT !.log = Append(@, Turn(role, content))]
  /\ BotIdle

NextHistory ==
  \E role \in {"user", "assistant"}, content \in Contents :
    AddTurn(role, content)

SpecHistory == InitHistory /\ [][NextHistory]_vars

\* C13: after any calls of addHistory the history holds min(calls, H_max)
\* turns, they are the turns added last, in the order added, and each
\* content is the added content cut to its first C_max characters.
C13_Bounded ==
  LET n == Len(arg.log)
      k == Len(res)
  IN /\ k = IF n < arg.limit THEN n ELSE arg.limit
     /\ k <= arg.limit
     /\ \A i \in 1..k :
          LET given == arg.log[n - k + i]
              kept == res[i].content
          IN /\ res[i].role = given.role
             /\ Len(kept) <= resultStoreLimit
             /\ Len(kept) = IF Len(given.content) < resultStoreLimit
                              THEN Len(given.content) ELSE resultStoreLimit
             /\ \A j \in 1..Len(kept) : kept[j] = given.content[j]

\* C13, witness: more turns were added than fit, the oldest is gone and a
\* kept content was cut.
C13_Witness ==
  /\ arg.fn = "addHistory"
  /\ Len(arg.log) = MaxAdds
  /\ arg.limit = 2
  /\ Len(res) = 2
  /\ Len(arg.log[MaxAdds].content) > resultStoreLimit
  /\ arg.log[1] # arg.log[2] /\ arg.log[2] # arg.log[3]

\* ------------------------------------------- study of chunkTextByParagraph
\* text.lastIndexOf(sub, from): the largest 0-based offset at most `from`
\* where `sub` starts, or -1.
lastIndexOf(text, sub, from) ==
  LET start == IF from < 0 THEN 0 ELSE from
      last == IF start < Len(text) - Len(sub) THEN start
              ELSE Len(text) - Len(sub)
      found == {i \in 0..last : SubSeq(text, i + 1, i + Len(sub)) = sub}
  IN IF found = {} THEN -1
     ELSE CHOOSE i \in found : \A j \in found : j <= i

\* A loop that also cuts a text that fits exactly.
needsCutOffByOne(remaining, maxLen) == Len(remaining) >= maxLen

\* message-utils.js:5: while (remaining.length > maxLen)
needsCut(remaining, maxLen) == Len(remaining) > maxLen

\* A hard cut one character too far.
hardCutLong(maxLen) == maxLen + 1

\* message-utils.js:13: if (cut <= 0) cut = maxLen
hardCut(maxLen) == maxLen

\* A cut at the last paragraph break wherever it lies.
cutAtAnyParagraph(remaining, maxLen) ==
  LET c1 == lastIndexOf(remaining, <<"\n", "\n">>, maxLen)
      c2 == IF c1 < 0 THEN lastIndexOf(remaining, <<"\n">>, maxLen) ELSE c1
      c3 == IF c2 < maxLen \div 2 /\ c1 < 0
              THEN lastIndexOf(remaining, <<" ">>, maxLen) ELSE c2
  IN IF c3 <= 0 THEN hardCut(maxLen) ELSE c3

\* message-utils.js:6-13: the place of the cut.
cutAt(remaining, maxLen) ==
  LET half == maxLen \div 2
      c1 == lastIndexOf(remaining, <<"\n", "\n">>, maxLen)
      c2 == IF c1 < half THEN lastIndexOf(remaining, <<"\n">>, maxLen) ELSE c1
      c3 == IF c2 < half THEN lastIndexOf(remaining, <<" ">>, maxLen) ELSE c2
  IN IF c3 <= 0 THEN hardCut(maxLen) ELSE c3

\* The rest with the character at the cut dropped.
restSkipsOne(remaining, cut) == trim(sliceFrom(remaining, cut + 1))

\* message-utils.js:16: remaining = remaining.slice(cut).trim()
restAfter(remaining, cut) == trim(sliceFrom(remaining, cut))

\* message-utils.js:5-19: the loop and the push of what remains.
RECURSIVE chunkLoop(_, _, _)
chunkLoop(remaining, maxLen, chunks) ==
  IF needsCut(remaining, maxLen)
    THEN LET cut == cutAt(remaining, maxLen)
         IN chunkLoop(restAfter(remaining, cut), maxLen,
                      Append(chunks, trim(sliceTo(remaining, cut))))
  ELSE IF remaining # <<>> THEN Append(chunks, remaining)
  ELSE chunks

chunkTextByParagraph(text, maxLen) == chunkLoop(trim(text), maxLen, <<>>)

\* message-utils.js:5-17: what the loop cuts, pass by pass: the text that
\* remained and the offset of the cut.
RECURSIVE cutLoop(_, _, _)
cutLoop(remaining, maxLen, cuts) ==
  IF needsCut(remaining, maxLen)
    THEN LET cut == cutAt(remaining, maxLen)
         IN cutLoop(restAfter(remaining, cut), maxLen,
                    Append(cuts, [remaining |-> remaining, cut |-> cut]))
  ELSE cuts

Texts6 == SeqsUpTo(Chars, MaxTextLen)

\* A call with fifty "A", a blank line and fifty "B", to be cut at 60.
exampleCall ==
  <<[i \in 1..102 |-> IF i <= 50 THEN "A" ELSE IF i <= 52 THEN "\n" ELSE "B"],
    60>>

\* arg: the call and, once it returned, the cuts it made; res: the chunks.
InitChunk ==
  /\ Started(EmptyStore)
  /\ \E in \in (Texts6 \X (1..MaxChunkLen))
               \cup {exampleCall} :
       arg = [fn |-> "chunk", text |-> in[1], maxLen |-> in[2],
              done |-> FALSE, cuts |-> <<>>]
  /\ res = <<>>

\* chunkTextByParagraph(text, maxLen) is called.
Chunk ==
  /\ arg.fn = "chunk" /\ ~arg.done
  /\ res' = chunkTextByParagraph(arg.text, arg.maxLen)
  /\ arg' = [arg EXCEPT !.done = TRUE,
                        !.cuts = cutLoop(trim(arg.text), arg.maxLen, <<>>)]
  /\ BotIdle

NextChunk == Chunk

SpecChunk == InitChunk /\ [][NextChunk]_vars

\* C14: every chunk returned has at least one character and at most maxLen.
C14_ChunksBounded ==
  arg.done =>
    \A i \in 1..Len(res) : Len(res[i]) >= 1 /\ Len(res[i]) <= arg.maxLen

\* C14, witness: a text was cut into three chunks or more.
C14_Witness == arg.fn = "chunk" /\ arg.done /\ Len(res) >= 3

\* The text after its leading whitespace.
RECURSIVE SkipWs(_)
SkipWs(text) ==
  IF text # <<>> /\ Head(text) \in Whitespace THEN SkipWs(Tail(text))
  ELSE text

\* The text is the chunks in order with nothing but whitespace before,
\* between and after them.
RECURSIVE Joins(_, _)
Joins(text, chunks) ==
  LET t == SkipWs(text)
  IN IF chunks = <<>> THEN t = <<>>
     ELSE LET c == Head(chunks)
          IN /\ Len(c) <= Len(t)
             /\ SubSeq(t, 1, Len(c)) = c
             /\ Joins(SubSeq(t, Len(c) + 1, Len(t)), Tail(chunks))

\* C15: the chunks, in order, are the input with whitespace taken out at the
\* chunk boundaries only: every other character is there once, in place.
C15_Rebuilds == arg.done => Joins(arg.text, res)

\* C15, witness: a text with a blank line and letters on both sides was cut.
C15_Witness ==
  /\ arg.fn = "chunk" /\ arg.done
  /\ Len(res) >= 2
  /\ \E i \in 1..(Len(arg.text) - 1) :
       arg.text[i] = "\n" /\ arg.text[i + 1] = "\n"
  /\ \E i \in 1..Len(res) : \E j \in 1..Len(res[i]) : res[i][j] \in Whitespace

\* C16 as stated: a text of length at most maxLen comes back as exactly one
\* chunk.
C16_OneChunk ==
  arg.done /\ Len(arg.text) <= arg.maxLen => Len(res) = 1

\* C16 as amended: a text of length at most maxLen with a character that is
\* not whitespace comes back as exactly one chunk, the trimmed text; an
\* empty or all-whitespace text comes back as no chunk.
C16_OneChunkOrNone ==
  arg.done /\ Len(arg.text) <= arg.maxLen =>
    IF \E i \in 1..Len(arg.text) : arg.text[i] \notin Whitespace
      THEN Len(res) = 1 /\ Joins(arg.text, res)
      ELSE res = <<>>

\* C16, witness: a text of exactly maxLen characters with a space inside
\* came back as one chunk.
C16_Witness ==
  /\ arg.fn = "chunk" /\ arg.done
  /\ Len(arg.text) = arg.maxLen
  /\ \E i \in 2..(Len(arg.text) - 1) : arg.text[i] = " "
  /\ Len(res) = 1

\* The offsets at most maxLen where `sub` starts in the text.
BreaksAt(text, sub, maxLen) ==
  {i \in 0..maxLen :
     i + Len(sub) <= Len(text) /\ SubSeq(text, i + 1, i + Len(sub)) = sub}

\* The largest of a set of offsets, -1 for none.
LastOf(S) == IF S = {} THEN -1 ELSE CHOOSE i \in S : \A j \in S : j <= i

\* The split point in the stated order; half the limit is rounded down.
SplitPoint(text, maxLen) ==
  LET paragraph == LastOf(BreaksAt(text, <<"\n", "\n">>, maxLen))
      line == LastOf(BreaksAt(text, <<"\n">>, maxLen))
      space == LastOf(BreaksAt(text, <<" ">>, maxLen))
  IN IF paragraph >= 0 /\ 2 * paragraph >= maxLen - 1 THEN paragraph
     ELSE IF line >= 0 /\ 2 * line >= maxLen - 1 THEN line
     ELSE IF space >= 0 THEN space
     ELSE maxLen

\* C32: every cut of a text longer than maxLen is made at the last paragraph
\* break at or before maxLen if that lies at or after half the limit, else
\* at the last line break under the same condition, else at the last space
\* at or before maxLen, else at maxLen; and fifty "A", a blank line and fifty
\* "B" cut at 60 give the two runs.
C32_SplitOrder ==
  arg.done =>
    /\ \A i \in 1..Len(arg.cuts) :
         arg.cuts[i].cut = SplitPoint(arg.cuts[i].remaining, arg.maxLen)
    /\ <<arg.text, arg.maxLen>> = exampleCall
         => res = <<[i \in 1..50 |-> "A"], [i \in 1..50 |-> "B"]>>

\* C32, witness: a cut was made at a space because the last line break lay
\* before half the limit.
C32_Witness ==
  /\ arg.fn = "chunk" /\ arg.done
  /\ \E i \in 1..Len(arg.cuts) :
       LET r == arg.cuts[i].remaining
           cut == arg.cuts[i].cut
       IN /\ r[cut + 1] = " "
          /\ \E j \in 1..cut : r[j] = "\n"

\* ------------------------------------------ study of sanitizePushNarration
NarrChars == {"a", " "} \cup Terminators \cup {patterns[i] : i \in 1..Len(patterns)}

Narrations == SeqsUpTo(NarrChars, MaxNarrLen)

InitSanitize ==
  /\ Started(EmptyStore)
  /\ \E text \in Narrations :
       arg = [fn |-> "sanitize", text |-> text, done |-> FALSE]
  /\ res = <<>>

\* sanitizePushNarration(text) is called.
Sanitize ==
  /\ arg.fn = "sanitize" /\ ~arg.done
  /\ res' = sanitizePushNarration(arg.text)
  /\ arg' = [arg EXCEPT !.done = TRUE]
  /\ BotIdle

NextSanitize == Sanitize

SpecSanitize == InitSanitize /\ [][NextSanitize]_vars

\* The lines of a text, in order.
RECURSIVE Lines(_)
Lines(text) ==
  LET ends == {i \in 1..Len(text) : text[i] \in Terminators}
      k == IF ends = {} THEN Len(text) + 1
           ELSE CHOOSE i \in ends : \A j \in ends : i <= j
  IN IF k > Len(text) THEN <<text>>
     ELSE <<SubSeq(text, 1, k - 1)>> \o Lines(SubSeq(text, k + 1, Len(text)))

Blank(line) == \A i \in 1..Len(line) : line[i] = " "
Disallowed(line) ==
  \E i \in 1..Len(line), j \in 1..Len(patterns) : line[i] = patterns[j]

\* The lines of the input that have text and no disallowed phrase.
KeptLines(text) ==
  LET Keep(line) == ~Blank(line) /\ ~Disallowed(line)
  IN SelectSeq(Lines(text), Keep)

\* The lines of the result that have text.
TextLines(text) ==
  LET Keep(line) == ~Blank(line)
  IN SelectSeq(Lines(text), Keep)

\* C17: the result has no line with a disallowed phrase; its lines with text
\* are the other lines of the input, in order and unchanged but for the
\* whitespace trimmed at the two ends of the result; it has no three newlines
\* in a row and neither starts nor ends with whitespace.
C17_Sanitized ==
  arg.done =>
    LET kept == KeptLines(arg.text)
        out == TextLines(res)
        n == Len(out)
    IN /\ \A i \in 1..Len(res) : \A j \in 1..Len(patterns) : res[i] # patterns[j]
       /\ Len(kept) = n
       /\ \A i \in 1..n :
            LET a == IF i = 1 THEN SkipWs(kept[i]) ELSE kept[i]
                b == IF i = n /\ a # <<>> /\ a[Len(a)] = " "
                       THEN SubSeq(a, 1, CHOOSE m \in 0..Len(a) :
                              /\ m = 0 \/ a[m] # " "
                              /\ \A q \in (m + 1)..Len(a) : a[q] = " ")
                     ELSE a
            IN out[i] = b
       /\ \A i \in 1..(Len(res) - 2) :
            ~(res[i] = "\n" /\ res[i + 1] = "\n" /\ res[i + 2] = "\n")
       /\ res # <<>> =>
            res[1] \notin Whitespace /\ res[Len(res)] \notin Whitespace

\* C17, witness: a line with a phrase and other text was removed from the
\* middle of a text, and the lines before and after it were kept.
C17_Witness ==
  /\ arg.fn = "sanitize" /\ arg.done
  /\ \E i \in 2..(Len(arg.text) - 1) :
       /\ arg.text[i] \in {"P", "Q"}
       /\ arg.text[i - 1] = "a" \/ arg.text[i + 1] = "a"
  /\ Len(KeptLines(arg.text)) >= 2
  /\ Len(TextLines(res)) >= 2

\* ----------------------------------------------------- study of the inbox
\* The bot of Spec, with the envelope of the last message kept in arg.
InitInbox ==
  /\ Started(EmptyStore)
  /\ arg = NoEnvelope
  /\ res = NoRes

SpecInbox == InitInbox /\ [][Next]_vars

\* The observable state: everything but the count of messages taken in.
Observable ==
  <<busy, sessions, sessionFile, repoAliasStore, aliasFile, config,
    githubToken, msg, loc, call, buf>>

\* C21: a step that takes in a message from a group chat or from a sender
\* other than the configured user sends nothing and changes nothing but the
\* count of messages taken in: its handler is over at once, and the state
\* after it is the state without it.
C21_Dropped ==
  [][\A p \in Procs :
       /\ pc[p] = "wait" /\ pc'[p] # "wait"
       /\ arg'.type # "private" \/ arg'.from # "owner"
       => /\ reply' = "none"
          /\ Observable' = Observable
          /\ pc' = [pc EXCEPT ![p] = "done"]]_vars

\* C21, witness: a stranger's message was just dropped while a request is
\* running and another message has been answered.
C21_Witness ==
  /\ arg.fn = "message" /\ arg.type = "private" /\ arg.from = "stranger"
  /\ ~arg.empty
  /\ pc[3] = "done" /\ pc[2] \notin {"wait", "done"} /\ busy

\* ------------------------------------------------------- study of runCodex
\* One call of runCodex (bot.js:117-176).  arg holds the closure of the
\* promise: finished, the timer, out and err, whether the child was killed,
\* and the events so far in order; res holds every resolve and reject made.
InitRun ==
  /\ Started(EmptyStore)
  /\ arg = [fn |-> "runCodex", finished |-> FALSE, timer |-> "armed",
            killed |-> FALSE, out |-> <<>>, err |-> <<>>, log |-> <<>>]
  /\ res = <<>>

Event(ev, code) == [ev |-> ev, code |-> code]
Happened(ev) == \E i \in 1..Len(arg.log) : arg.log[i].ev = ev

\* A handler that settles whatever happened before.
settlesAlways(finished) == TRUE

\* bot.js:142, 159, 165: if (finished) return
settles(finished) == ~finished

\* clearTimeout(timeoutId)
clearTimeout(timer) == IF timer = "armed" THEN "cleared" ELSE timer

\* bot.js:170: the text of the error of a nonzero exit.
exitText(out, err) == IF err # <<>> THEN err ELSE <<"codex exited with code">>

\* bot.js:172: the text a zero exit resolves with.
okText(out) == IF out # <<>> THEN out ELSE <<"(no output)">>

\* bot.js:149-154: the child writes to stdout or stderr.
Data(stream) ==
  /\ arg.fn = "runCodex"
  /\ ~Happened("close")
  /\ Len(arg[stream]) < MaxData
  /\ arg' = [arg EXCEPT ![stream] = Append(@, IF stream = "out" THEN "o" ELSE "e")]
  /\ res' = res
  /\ BotIdle

\* bot.js:141-147: the timer fires.
TimedOut ==
  /\ arg.fn = "runCodex"
  /\ arg.timer = "armed"
  /\ IF settles(arg.finished)
       THEN /\ arg' = [arg EXCEPT !.finished = TRUE, !.killed = TRUE,
                                  !.timer = "fired",
                                  !.log = Append(@, Event("timeout", 0))]
            /\ res' = Append(res, [kind |-> "reject", error |-> "timeout",
                                   text |-> <<>>])
       ELSE /\ arg' = [arg EXCEPT !.timer = "fired",
                                  !.log = Append(@, Event("timeout", 0))]
            /\ res' = res
  /\ BotIdle

\* bot.js:158-163: the child emits "error".
ChildError ==
  /\ arg.fn = "runCodex"
  /\ ~Happened("error")
  /\ IF settles(arg.finished)
       THEN /\ arg' = [arg EXCEPT !.finished = TRUE,
                                  !.timer = clearTimeout(@),
                                  !.log = Append(@, Event("error", 0))]
            /\ res' = Append(res, [kind |-> "reject", error |-> "spawn",
                                   text |-> <<>>])
       ELSE /\ arg' = [arg EXCEPT !.log = Append(@, Event("error", 0))]
            /\ res' = res
  /\ BotIdle

\* bot.js:164-174: the child emits "close".
ChildClose(code) ==
  /\ arg.fn = "runCodex"
  /\ ~Happened("close")
  /\ IF settles(arg.finished)
       THEN /\ arg' = [arg EXCEPT !.finished = TRUE,
                                  !.timer = clearTimeout(@),
                                  !.log = Append(@, Event("close", code))]
            /\ res' = Append(res,
                 IF code # 0
                   THEN [kind |-> "reject", error |-> "exit",
                         text |-> exitText(arg.out, arg.err)]
                   ELSE [kind |-> "resolve", error |-> "",
                         text |-> okText(arg.out)])
       ELSE /\ arg' = [arg EXCEPT !.log = Append(@, Event("close", code))]
            /\ res' = res
  /\ BotIdle

NextRun ==
  \/ \E stream \in {"out", "err"} : Data(stream)
  \/ TimedOut
  \/ ChildError
  \/ \E code \in {0, 1} : ChildClose(code)

SpecRun == InitRun /\ [][NextRun]_vars

\* C22: once one of timeout, error and close has happened the run is settled
\* exactly once, by the first of them: a timeout error with the child killed,
\* a spawn error, or the result of the exit; the child is killed by nothing
\* else, and when error or close came first the timer is cleared and never
\* fires.
C22_SettlesOnce ==
  /\ arg.log = <<>> => res = <<>> /\ ~arg.killed /\ arg.timer = "armed"
  /\ arg.log # <<>> =>
       /\ Len(res) = 1
       /\ LET first == arg.log[1] IN
          /\ first.ev = "timeout" <=> res[1].error = "timeout"
          /\ first.ev = "error" <=> res[1].error = "spawn"
          /\ first.ev = "close" /\ first.code # 0 <=> res[1].error = "exit"
          /\ first.ev = "close" /\ first.code = 0 <=> res[1].kind = "resolve"
          /\ arg.killed <=> first.ev = "timeout"
          /\ first.ev # "timeout" =>
               arg.timer = "cleared" /\ ~Happened("timeout")

\* C22, witness: the timer fired first, the child was killed, and its close
\* came afterwards.
C22_Witness ==
  /\ arg.fn = "runCodex"
  /\ Len(arg.log) >= 2
  /\ arg.log[1].ev = "timeout" /\ arg.log[2].ev = "close"
  /\ arg.killed /\ Len(res) = 1

\* C23: a run settled by an exit with code 0 resolved with the captured
\* stdout, or the placeholder when stdout is empty; one settled by another
\* exit code rejected with an error that carries stderr, or stdout when
\* stderr is empty.
C23_ExitResult ==
  arg.log # <<>> /\ arg.log[1].ev = "close" =>
    IF arg.log[1].code = 0
      THEN /\ res[1].kind = "resolve"
           /\ res[1].text = IF arg.out # <<>> THEN arg.out ELSE <<"(no output)">>
      ELSE /\ res[1].kind = "reject"
           /\ arg.err # <<>> => res[1].text = arg.err
           /\ arg.err = <<>> /\ arg.out # <<>> => res[1].text = arg.out

\* ------------------------------------------------- study of the two loaders
\* A JSON value by its kind; an object carries its content.
Json(type, value) == [type |-> type, value |-> value]
NotObjects == {Json(t, <<>>) : t \in {"null", "array", "number"}}

\* A registry whose active alias is not among its aliases.
Dangling == [aliases |-> NoAliases, active |-> "a"]
Listed(active) ==
  [aliases |-> WithAlias(NoAliases, "a", [defaultRepoDef EXCEPT !.dir = "/p"]),
   active |-> active]

\* What readFile finds: no file, a file it cannot read, a text that is no
\* JSON, or a JSON document with the given root.
FilesOf(objects) ==
  {[state |-> st, root |-> Json("null", <<>>)] :
     st \in {"missing", "unreadable", "garbage"}}
  \cup {[state |-> "json", root |-> r] :
          r \in NotObjects \cup {Json("object", o) : o \in objects}}

SessionFiles == FilesOf(Stores)
AliasFiles == FilesOf({EmptyRegistry, Dangling, Listed(NoActive), Listed("a")})

\* A root taken for a session store whatever it is.
anyRoot(parsed) == TRUE

\* bot.js:39: parsed && typeof parsed === "object" && !Array.isArray(parsed)
isStoreRoot(parsed) == parsed.type = "object"

\* bot.js:262: parsed && typeof parsed === "object"
isRegistryRoot(parsed) == parsed.type \in {"object", "array"}

\* arg: the call, the file, the clock and the await the loader is at;
\* res: the value it left in sessions or repoAliasStore and in config, the
\* backups made, and whether the loader threw.
InitLoad ==
  /\ Started(EmptyStore)
  /\ \E now \in 1..MaxClock :
       \/ \E file \in SessionFiles :
            arg = [fn |-> "loadSessions", file |-> file, now |-> now,
                   at |-> "read"]
       \/ \E file \in AliasFiles :
            arg = [fn |-> "loadRepoAliasStore", file |-> file, now |-> now,
                   at |-> "read"]
  /\ res = [value |-> Json("unset", <<>>), config |-> ConfigFor(defaultRepoDef),
            backups |-> {}, threw |-> FALSE]

Loaded(value) ==
  /\ res' = [res EXCEPT !.value = value]
  /\ arg' = [arg EXCEPT !.at = "done"]

\* bot.js:36-47: readFile and JSON.parse of loadSessions.
SessionsRead ==
  /\ arg.fn = "loadSessions" /\ arg.at = "read"
  /\ IF arg.file.state = "json" /\ isStoreRoot(arg.file.root)
       THEN Loaded(arg.file.root)
     ELSE IF arg.file.state = "missing"
       THEN Loaded(Json("object", EmptyStore))
     ELSE arg' = [arg EXCEPT !.at = "mkdir"] /\ res' = res
  /\ BotIdle

\* bot.js:48-59: mkdir of the backup; a failure is logged.
BackupMkdir(ok) ==
  /\ arg.fn = "loadSessions" /\ arg.at = "mkdir"
  /\ IF ok THEN arg' = [arg EXCEPT !.at = "copy"] /\ res' = res
     ELSE Loaded(Json("object", EmptyStore))
  /\ BotIdle

\* bot.js:50-59: copyFile to the name with Date.now(); a failure is logged.
BackupCopy(ok) ==
  /\ arg.fn = "loadSessions" /\ arg.at = "copy"
  /\ res' = [res EXCEPT
               !.value = Json("object", EmptyStore),
               !.backups = IF ok THEN @ \cup {<<"sessions", arg.now>>} ELSE @]
  /\ arg' = [arg EXCEPT !.at = "done"]
  /\ BotIdle

\* bot.js:257-280: readFile and JSON.parse of loadRepoAliasStore, up to the
\* await of applyRepoSelection.
AliasesRead ==
  /\ arg.fn = "loadRepoAliasStore" /\ arg.at = "read"
  /\ LET root == arg.file.root
         registry ==
           IF arg.file.state # "json" \/ ~isRegistryRoot(root)
             THEN EmptyRegistry
           ELSE IF root.type = "array" THEN EmptyRegistry
           ELSE root.value
     IN /\ res' = [res EXCEPT !.value = Json("object", registry)]
        /\ arg' = [arg EXCEPT !.at =
                     IF registry.active # NoActive
                        /\ registry.active \in DOMAIN registry.aliases
                       THEN "access" ELSE "done"]
  /\ BotIdle

\* bot.js:235-246, 274-279: access() of the active alias's directory; when it
\* fails applyRepoSelection throws out of the loader.
AliasesApply(ok) ==
  /\ arg.fn = "loadRepoAliasStore" /\ arg.at = "access"
  /\ LET registry == res.value.value
     IN res' = IF ok
                 THEN [res EXCEPT
                         !.config = ConfigFor(registry.aliases[registry.active])]
               ELSE [res EXCEPT !.threw = TRUE]
  /\ arg' = [arg EXCEPT !.at = "done"]
  /\ BotIdle

NextLoad ==
  \/ SessionsRead
  \/ \E ok \in BOOLEAN : BackupMkdir(ok)
  \/ \E ok \in BOOLEAN : BackupCopy(ok)
  \/ AliasesRead
  \/ \E ok \in BOOLEAN : AliasesApply(ok)

SpecLoad == InitLoad /\ [][NextLoad]_vars

\* The file is there and is not a JSON document with an object as its root.
Corrupt(file) ==
  \/ file.state = "garbage"
  \/ file.state = "json" /\ file.root.type # "object"

\* C24: loadSessions never throws; when it is over a missing file has given
\* the empty store and no backup, a file that is no JSON or whose root is no
\* object has given the empty store and a backup at most (none when mkdir or
\* copyFile failed), named after the clock, and a file with an object as its
\* root has given that object and no backup.
C24_LoadsSessions ==
  arg.fn = "loadSessions" =>
    /\ ~res.threw
    /\ arg.at = "done" =>
         /\ res.value.type = "object"
         /\ arg.file.state = "missing" =>
              res.value.value = EmptyStore /\ res.backups = {}
         /\ Corrupt(arg.file) =>
              /\ res.value.value = EmptyStore
              /\ res.backups \subseteq {<<"sessions", arg.now>>}
         /\ arg.file.state = "json" /\ arg.file.root.type = "object" =>
              res.value = arg.file.root /\ res.backups = {}

\* C24, witness: a file with an array as its root was backed up and the
\* loader went on with the empty store.
C24_Witness ==
  /\ arg.fn = "loadSessions" /\ arg.at = "done"
  /\ arg.file.state = "json" /\ arg.file.root.type = "array"
  /\ res.backups # {}
  /\ res.value = Json("object", EmptyStore)

\* C25: loadRepoAliasStore does not throw on a corrupt alias file, and when
\* it is over the bridge has the empty registry and a backup of the corrupt
\* file named after the clock.
C25_LoadsAliases ==
  arg.fn = "loadRepoAliasStore" /\ Corrupt(arg.file) =>
    /\ ~res.threw
    /\ arg.at = "done" =>
         /\ res.value = Json("object", EmptyRegistry)
         /\ res.backups = {<<"aliases", arg.now>>}

\* ------------------------------------------- study of the error messages
\* The markers of bot.js:1015 and bot.js:793, character by character ("X"
\* and "/" stand for the cross mark and the newline).
errorMarker == <<"X", " ", "E", "r", "r", "o", "r", ":", "/">>
prErrorMarker ==
  <<"X", " ", "F", "a", "i", "l", "e", "d", " ", "t", "o", " ", "c", "r",
    "e", "a", "t", "e", " ", "P", "R", ":", "/">>

\* bot.js:1014-1015: the text sent by the catch of a request.
errorText(message, telegramMax) ==
  errorMarker \o sliceFirst(message, telegramMax)

\* bot.js:792-793: the text sent by the catch of /pr.
prErrorText(message, telegramMax) == prErrorMarker \o message

\* arg: the path, the message of the error caught and config.telegramMax;
\* res: the text sent.
InitError ==
  /\ Started(EmptyStore)
  /\ \E path \in {"request", "pr"}, n \in 1..MaxErrLen,
        telegramMax \in 1..MaxTelegramMax :
       arg = [fn |-> "error", path |-> path, message |-> [i \in 1..n |-> "m"],
              telegramMax |-> telegramMax, sent |-> FALSE]
  /\ res = <<>>

SendError ==
  /\ arg.fn = "error" /\ ~arg.sent
  /\ res' = IF arg.path = "request"
              THEN errorText(arg.message, arg.telegramMax)
            ELSE prErrorText(arg.message, arg.telegramMax)
  /\ arg' = [arg EXCEPT !.sent = TRUE]
  /\ BotIdle

SpecError == InitError /\ [][SendError]_vars

\* C27: an error message sent has at most telegramMax characters, marker
\* included, whenever telegramMax leaves room for the marker and a character.
C27_ErrorFits ==
  arg.sent /\ arg.telegramMax > Len(prErrorMarker) =>
    Len(res) <= arg.telegramMax

\* ------------------------------------------------- study of the startup
\* The variables parseConfig can throw on, in the order it reads them.
EnvKeys ==
  <<"TARGET_REPO_DIR", "TELEGRAM_BOT_TOKEN", "TELEGRAM_ALLOWED_USER_ID",
    "TELEGRAM_MAX_MESSAGE", "HISTORY_TURNS", "HISTORY_STORE_LIMIT",
    "RESULT_STORE_LIMIT", "CODEX_TIMEOUT_MS">>
RequiredStrings == {"TARGET_REPO_DIR", "TELEGRAM_BOT_TOKEN"}
RequiredNumbers == {"TELEGRAM_ALLOWED_USER_ID"}
OptionalNumbers ==
  {"TELEGRAM_MAX_MESSAGE", "HISTORY_TURNS", "HISTORY_STORE_LIMIT",
   "RESULT_STORE_LIMIT", "CODEX_TIMEOUT_MS"}

\* Values of the environment, character by character; <<>> is a variable
\* that is unset or empty (env[key] || "").
StringRaws == SeqsUpTo({" ", "t"}, MaxRawLen)
NumberRaws == SeqsUpTo({" ", "-", "0", "1", "x"}, MaxRawLen)
RawsOf(key) == IF key \in RequiredStrings THEN StringRaws ELSE NumberRaws

\* The directory of the alias a registry file may name as active.
aliasDir == <<"p">>

\* A parsed setting: a text or a number; `threw` when the parser threw.
Parsed(text, n) == [threw |-> FALSE, text |-> text, n |-> n]
Thrown == [threw |-> TRUE, text |-> <<>>, n |-> 0]

isDigit(c) == c \in {"0", "1"}
digitOf(c) == IF c = "1" THEN 1 ELSE 0

RECURSIVE digitsValue(_, _)
digitsValue(text, acc) ==
  IF text = <<>> \/ ~isDigit(Head(text)) THEN acc
  ELSE digitsValue(Tail(text), 10 * acc + digitOf(Head(text)))

\* Number.parseInt(text, 10): leading white space and a sign are skipped,
\* the digits that follow are read and the rest is ignored; NaN when no
\* digit follows.
parseInt(text) ==
  LET t == trimStart(text)
      negative == t # <<>> /\ Head(t) = "-"
      digits == IF negative THEN Tail(t) ELSE t
  IN IF digits = <<>> \/ ~isDigit(Head(digits))
       THEN [nan |-> TRUE, n |-> 0]
     ELSE [nan |-> FALSE,
           n |-> IF negative THEN 0 - digitsValue(digits, 0)
                 ELSE digitsValue(digits, 0)]

\* part_000:4-10
parseRequiredString(raw) ==
  IF trim(raw) = <<>> THEN Thrown ELSE Parsed(trim(raw), 0)

\* part_000:14, 24: !Number.isFinite(value) || value <= 0
notPositive(value) == value.nan \/ value.n <= 0

\* part_000:12-18
parseRequiredNumber(raw) ==
  IF notPositive(parseInt(raw)) THEN Thrown ELSE Parsed(<<>>, parseInt(raw).n)

\* part_000:56-60: the defaults of the optional numbers.
fallbackOf(key) ==
  CASE key = "TELEGRAM_MAX_MESSAGE" -> 3900
    [] key = "HISTORY_TURNS" -> 8
    [] key = "HISTORY_STORE_LIMIT" -> 24
    [] key = "RESULT_STORE_LIMIT" -> 6000
    [] OTHER -> 600000

\* part_000:20-28
parseOptionalNumber(raw, fallback) ==
  IF trim(raw) = <<>> THEN Parsed(<<>>, fallback)
  ELSE IF notPositive(parseInt(trim(raw))) THEN Thrown
  ELSE Parsed(<<>>, parseInt(trim(raw)).n)

parseSetting(key, raw) ==
  IF key \in RequiredStrings THEN parseRequiredString(raw)
  ELSE IF key \in RequiredNumbers THEN parseRequiredNumber(raw)
  ELSE parseOptionalNumber(raw, fallbackOf(key))

\* arg: the step the startup is at, the variable read last with its value,
\* and the directories access() found a .git entry in; res: the settings parsed so far, the target
\* directory, and whether the process exited or handles messages.
InitStart ==
  /\ Started(EmptyStore)
  /\ arg = [fn |-> "startup", at |-> "config", next |-> 1, key |-> "",
            raw |-> <<>>, git |-> {}]
  /\ res = [settings |-> [k \in {} |-> Thrown], targetRepoDir |-> <<>>,
            halted |-> FALSE, listening |-> FALSE, handled |-> FALSE]

Halted == res' = [res EXCEPT !.halted = TRUE]

\* part_000:36-62, bot.js:14: parseConfig reads one variable; a throw ends
\* the process.
ReadEnv(raw) ==
  /\ arg.fn = "startup" /\ arg.at = "config"
  /\ LET key == EnvKeys[arg.next]
         value == parseSetting(key, raw)
     IN /\ raw \in RawsOf(key)
        /\ arg' = [arg EXCEPT !.key = key, !.raw = raw,
                              !.next = arg.next + 1,
                              !.at = IF value.threw THEN "exit"
                                     ELSE IF arg.next = Len(EnvKeys)
                                       THEN "check"
                                     ELSE "config"]
        /\ IF value.threw THEN Halted
           ELSE res' = [res EXCEPT
                          !.settings = [k \in DOMAIN res.settings \cup {key} |->
                                          IF k = key THEN value
                                          ELSE res.settings[k]],
                          !.targetRepoDir =
                            IF key = "TARGET_REPO_DIR" THEN value.text
                            ELSE res.targetRepoDir]
  /\ BotIdle

\* bot.js:28-33: the exit on a falsy token or user id, then the bot object.
TokenCheck ==
  /\ arg.fn = "startup" /\ arg.at = "check"
  /\ IF \/ res.settings["TELEGRAM_BOT_TOKEN"].text = <<>>
        \/ res.settings["TELEGRAM_ALLOWED_USER_ID"].n = 0
       THEN arg' = [arg EXCEPT !.at = "exit"] /\ Halted
     ELSE arg' = [arg EXCEPT !.at = "aliases"] /\ res' = res
  /\ BotIdle

\* bot.js:235-241, 257-280, 652: loadRepoAliasStore; an active alias of
\* the registry file is applied, and a directory without .git makes it
\* throw.
StartAliases(active, ok) ==
  /\ arg.fn = "startup" /\ arg.at = "aliases"
  /\ IF ~active
       THEN arg' = [arg EXCEPT !.at = "ready"] /\ res' = res
     ELSE IF ok
       THEN /\ arg' = [arg EXCEPT !.at = "ready", !.git = {aliasDir}]
            /\ res' = [res EXCEPT !.targetRepoDir = aliasDir]
     ELSE arg' = [arg EXCEPT !.at = "exit"] /\ Halted
  /\ BotIdle

\* bot.js:641-650, 653: ensureStartupReady, whose access(config.primaryGitDir)
\* succeeds or not; loadSessions does not throw.
StartReady(ok) ==
  /\ arg.fn = "startup" /\ arg.at = "ready"
  /\ IF ok
       THEN /\ arg' = [arg EXCEPT !.at = "listen", !.git = {res.targetRepoDir}]
            /\ res' = res
     ELSE arg' = [arg EXCEPT !.at = "exit", !.git = {}] /\ Halted
  /\ BotIdle

\* bot.js:655: bot.on("message", ...) registers the handler.
StartListening ==
  /\ arg.fn = "startup" /\ arg.at = "listen"
  /\ arg' = [arg EXCEPT !.at = "polling"]
  /\ res' = [res EXCEPT !.listening = TRUE]
  /\ BotIdle

\* bot.js:655-1019: a message reaches the registered handler.
StartHandles ==
  /\ arg.fn = "startup" /\ res.listening /\ ~res.handled
  /\ res' = [res EXCEPT !.handled = TRUE]
  /\ arg' = arg
  /\ BotIdle

NextStart ==
  \/ \E raw \in NumberRaws \cup StringRaws : ReadEnv(raw)
  \/ TokenCheck
  \/ \E active \in BOOLEAN, ok \in BOOLEAN : StartAliases(active, ok)
  \/ \E ok \in BOOLEAN : StartReady(ok)
  \/ StartListening
  \/ StartHandles

SpecStart == InitStart /\ [][NextStart]_vars

\* A value that is a positive integer: digits only, white space around them
\* aside, and not zero.
AllDigits(text) == text # <<>> /\ \A i \in 1..Len(text) : isDigit(text[i])
PositiveInteger(raw) == AllDigits(trim(raw)) /\ digitsValue(trim(raw), 0) > 0

\* C29: once a required setting was read missing or blank, or a numeric
\* setting was read with a value that is set and is not a positive integer,
\* the process has exited; a process that handles messages found a .git entry
\* in its target directory; and no message is handled by a process that
\* exited or has not finished its startup.
C29_Halts ==
  arg.key # "" =>
    /\ arg.key \in RequiredStrings \cup RequiredNumbers /\ trim(arg.raw) = <<>>
         => res.halted
    /\ arg.key \in RequiredNumbers \cup OptionalNumbers
         /\ trim(arg.raw) # <<>> /\ ~PositiveInteger(arg.raw)
         => res.halted
    /\ res.listening => res.targetRepoDir \in arg.git
    /\ res.handled => res.listening /\ ~res.halted

\* ------------------------------------------- study of sendLongMessage
\* bot.js:107: the room sendLongMessage leaves under config.telegramMax.
chunkMargin == 20

\* bot.js:106: the text sent for an empty one.
noOutput == <<"(", "n", "o", " ", "o", "u", "t", "p", "u", "t", ")">>

\* arg: the text, config.telegramMax and where the call is; res: what remains
\* to be cut and the chunks pushed so far, counted up to MaxCounted.
InitSend ==
  /\ Started(EmptyStore)
  /\ \E text \in SeqsUpTo(Chars, MaxSendLen), telegramMax \in 1..MaxSendMax :
       arg = [fn |-> "send", text |-> text, telegramMax |-> telegramMax,
              at |-> "call"]
  /\ res = [remaining |-> <<>>, chunks |-> 0]

Counted(n) == IF n > MaxCounted THEN MaxCounted ELSE n

\* bot.js:105-108, message-utils.js:1-3: the call of chunkTextByParagraph.
\* No text drawn here holds a code fence, so the replace of line 106 keeps it.
SendCall ==
  /\ arg.fn = "send" /\ arg.at = "call"
  /\ res' = [res EXCEPT
               !.remaining = trim(IF arg.text = <<>> THEN noOutput ELSE arg.text)]
  /\ arg' = [arg EXCEPT !.at = "loop"]
  /\ BotIdle

\* message-utils.js:5-17: one pass of the loop.
SendPass ==
  /\ arg.fn = "send" /\ arg.at = "loop"
  /\ LET maxLen == arg.telegramMax - chunkMargin
         cut == cutAt(res.remaining, maxLen)
     IN /\ needsCut(res.remaining, maxLen)
        /\ res' = [remaining |-> restAfter(res.remaining, cut),
                   chunks |-> Counted(res.chunks + 1)]
  /\ arg' = arg
  /\ BotIdle

\* message-utils.js:5, 19-20: the loop is left and what remains is pushed.
SendLast ==
  /\ arg.fn = "send" /\ arg.at = "loop"
  /\ ~needsCut(res.remaining, arg.telegramMax - chunkMargin)
  /\ res' = [res EXCEPT
               !.chunks = IF res.remaining # <<>> THEN Counted(@ + 1) ELSE @]
  /\ arg' = [arg EXCEPT !.at = "done"]
  /\ BotIdle

NextSend == SendCall \/ SendPass \/ SendLast

\* The call runs on: a step that can be taken is taken.
SpecSend == InitSend /\ [][NextSend]_vars /\ WF_vars(NextSend)

\* C36: whatever the text and the positive config.telegramMax, the loop is
\* left and chunkTextByParagraph returns.  A pass that leaves `remaining` as
\* it was, once the count stands at MaxCounted, is a step to the same state:
\* the loop running on for ever shows as a behaviour that stays in "loop".
C36_Terminates == <>(arg.fn = "send" /\ arg.at = "done")

\* What a /repo command may change: the registry, the live configuration,
\* the sessions and the two files.
repoState == <<repoAliasStore, config, sessions, sessionFile, aliasFile>>

\* The /repo use or /repo remove handler p enters applyRepoSelection.
EntersValidation(p) == pc[p] # "apply_access" /\ pc'[p] = "apply_access"

\* The access() of applyRepoSelection fails for handler p.
ValidationFails(p) == pc[p] = "apply_access" /\ pc'[p] = "done"

\* C37: a /repo use, or a /repo remove of the active alias, whose validation
\* of the target directory fails changes nothing: neither its steps up to the
\* validation nor the failure itself change the alias map, the active
\* selection, the live configuration, the sessions or a persisted store.
C37_FailureChangesNothing ==
  [][\A p \in Procs :
       EntersValidation(p) \/ ValidationFails(p) => repoState' = repoState]_vars
====
